---- MODULE Spec2Model ----
(***************************************************************************)
(* Student Directory and Timeline Store of the CRM backend.                *)
(*                                                                         *)
(* Both service generations are modelled over the one document store they  *)
(* share: StudentService (app/services/student_service.py, camelCase keys) *)
(* and StudentV2Service (app/services/student_v2_service.py, snake_case    *)
(* keys and a per-student "timeline" sub-collection).                      *)
(*                                                                         *)
(* A dictionary (stored document, update map, request body) is a record   *)
(* over AllKeys; each entry is [p, v] where p tells whether the key is     *)
(* "absent", holds Python's None ("null") or holds the value v ("val").    *)
(* Instants are whole hours; the store assigns ids from a counter.         *)
(***************************************************************************)
EXTENDS Integers, Sequences, FiniteSets, TLC

VARIABLES students, timeline, now, nextId, nextEvent, last,
          tasks, reminders, nextItem, calls, api_key, posted

vars == <<students, timeline, now, nextId, nextEvent, last,
          tasks, reminders, nextItem, calls, api_key, posted>>

(***************************************************************************)
(* Bounds of the model.                                                    *)
(***************************************************************************)
MaxStudents == 2    \* student documents ever added
MaxEvents == 2      \* timeline events ever added
MaxClock == 1       \* hours the clock advances
MaxItems == 2       \* standalone tasks and reminders ever added
MaxPosts == 2       \* requests ever issued to the email transport

(***************************************************************************)
(* Dictionaries and optional values.                                       *)
(***************************************************************************)
StrKeys == {"name", "email", "country", "phone", "status"}
BoolKeys == {"high_intent", "highIntent", "needs_essay_help", "needsEssayHelp"}
TimeKeys == {"created_at", "createdAt", "last_active", "lastActive",
             "last_contacted_at", "lastContactedAt"}
\* a stored mapping is written as text: "{}" is the empty mapping
MapKeys == {"additional_data", "additionalData"}
AllKeys == StrKeys \cup BoolKeys \cup TimeKeys \cup MapKeys

Zero(k) ==
    IF k \in StrKeys \cup MapKeys THEN "" ELSE IF k \in BoolKeys THEN FALSE ELSE 0
Absent(k) == [p |-> "absent", v |-> Zero(k)]
Null(k) == [p |-> "null", v |-> Zero(k)]
Value(x) == [p |-> "val", v |-> x]

EmptyDict == [k \in AllKeys |-> Absent(k)]
\* a dict literal holding the entries of the partial map m
Dict(m) == [k \in AllKeys |-> IF k \in DOMAIN m THEN m[k] ELSE Absent(k)]
Keys(data) == {k \in AllKeys : data[k].p # "absent"}

\* dict.get(k): None when the key is absent
DocGet(data, k) == IF data[k].p = "val" THEN data[k] ELSE Null(k)
\* dict.get(k, d): the default only when the key is absent
DocGetDefault(data, k, d) ==
    IF data[k].p = "absent" THEN Value(d) ELSE DocGet(data, k)
\* Python's "a or b" on an optional string (None and "" are falsy)
OrElseStr(a, b) == IF a.p = "val" /\ a.v # "" THEN a ELSE b
\* Python's "a or b" on an optional datetime (None is falsy)
OrElse(a, b) == IF a.p = "val" THEN a ELSE b
\* Python's "a or b" on an optional mapping (None and {} are falsy)
OrElseMap(a, b) == IF a.p = "val" /\ a.v # "{}" THEN a ELSE b
\* DocumentReference.update(upd): the written keys win, the others stay
Merge(data, upd) ==
    [k \in AllKeys |-> IF upd[k].p # "absent" THEN upd[k] ELSE data[k]]

(***************************************************************************)
(* Text: a string value stands for its characters, str.lower() maps each   *)
(* character, and "a in b" is the substring test.                          *)
(***************************************************************************)
Chars(s) ==
    CASE s = "Maria"   -> <<"M", "a", "r", "i", "a">>
      [] s = "Bo"      -> <<"B", "o">>
      [] s = "Omar"    -> <<"O", "m", "a", "r">>
      [] s = "ma@x.io" -> <<"m", "a", "@", "x", ".", "i", "o">>
      [] s = "MA@x.io" -> <<"M", "A", "@", "x", ".", "i", "o">>
      [] s = "bo@x.io" -> <<"b", "o", "@", "x", ".", "i", "o">>
      [] s = "Oman"    -> <<"O", "m", "a", "n">>
      [] s = "Peru"    -> <<"P", "e", "r", "u">>
      [] s = "ma"      -> <<"m", "a">>
      [] s = "MA"      -> <<"M", "A">>
      [] s = "pe"      -> <<"p", "e">>
      [] s = "OM"      -> <<"O", "M">>
      [] s = "Unknown Student"     -> <<"U", "n", "k">>
      [] s = "unknown@example.com" -> <<"u", "n", "k", "@">>
      [] s = "Unknown" -> <<"U", "n", "k">>
      [] OTHER         -> <<>>

LowerChar(c) ==
    CASE c = "A" -> "a" [] c = "B" -> "b" [] c = "M" -> "m" [] c = "O" -> "o"
      [] c = "P" -> "p" [] c = "U" -> "u" [] OTHER -> c

Lower(cs) == [i \in 1..Len(cs) |-> LowerChar(cs[i])]

IsSubstring(a, b) ==
    \E i \in 0..(Len(b) - Len(a)) :
        \A j \in 1..Len(a) : b[i + j] = a[j]

(***************************************************************************)
(* Enumerations of the models.                                             *)
(***************************************************************************)
StudentStatus == {"Exploring", "Shortlisting", "Applying", "Submitted"}
\* the countries a normalized student of the model can carry
Countries == {"Oman", "Peru", "Unknown"}
TimelineEventType == {"interaction", "communication", "note", "task", "reminder"}

(***************************************************************************)
(* Inputs the requests are drawn from.                                     *)
(***************************************************************************)
\* StudentCreate bodies (phone stands for the optional fields phone, grade
\* and source, which the services treat alike; additional_data is None)
StudentCreates ==
    { [name |-> "Maria", email |-> "ma@x.io", country |-> "Oman",
       phone |-> Null("phone"), status |-> "Exploring",
       high_intent |-> FALSE, needs_essay_help |-> FALSE],
      [name |-> "Bo", email |-> "ma@x.io", country |-> "Peru",
       phone |-> Value("555"), status |-> "Applying",
       high_intent |-> TRUE, needs_essay_help |-> FALSE],
      [name |-> "Omar", email |-> "MA@x.io", country |-> "Peru",
       phone |-> Null("phone"), status |-> "Exploring",
       high_intent |-> FALSE, needs_essay_help |-> TRUE] }

\* ids the store assigns, and one id that names no student document ever
\* (a client may put any id in a request path)
AssignedIds == 1..MaxStudents
GhostId == MaxStudents + 1
StudentIds == AssignedIds \cup {GhostId}

(***************************************************************************)
(* The document store: the "students" collection and, under each student   *)
(* id, its "timeline" sub-collection.  A sub-collection lives under its    *)
(* path whether or not a student document exists at that path.             *)
(***************************************************************************)
NoDoc == [exists |-> FALSE, data |-> EmptyDict]
Doc(data) == [exists |-> TRUE, data |-> data]
DocIds(store) == {i \in StudentIds : store[i].exists}

\* the existence query finding nothing
WhereEmailNothing(store, email) == {}

\* collection("students").where("email", "==", email)
WhereEmail(store, email) ==
    {i \in DocIds(store) : store[i].data["email"] = Value(email)}

(***************************************************************************)
(* Entity Schema Normalizer.  A normalizer yields [ok, student]; ok is     *)
(* FALSE when the Python code raises (KeyError, ValueError or a pydantic   *)
(* validation error).                                                      *)
(***************************************************************************)
NoStudent ==
    [id |-> 0, name |-> Null("name"), email |-> Null("email"),
     country |-> Null("country"), phone |-> Null("phone"),
     status |-> Null("status"), created_at |-> Null("created_at"),
     last_active |-> Null("last_active"),
     last_contacted_at |-> Null("last_contacted_at"),
     high_intent |-> Null("high_intent"),
     needs_essay_help |-> Null("needs_essay_help"),
     additional_data |-> Null("additional_data")]

Raised == [ok |-> FALSE, student |-> NoStudent]
Returned(st) == [ok |-> TRUE, student |-> st]

\* the fields pydantic requires of a Student, in both model generations
ValidStudent(st) ==
    /\ st.name.p = "val" /\ st.email.p = "val" /\ st.country.p = "val"
    /\ st.status.p = "val" /\ st.status.v \in StudentStatus
    /\ st.created_at.p = "val" /\ st.last_active.p = "val"
    /\ st.high_intent.p = "val" /\ st.needs_essay_help.p = "val"

\* the first of the two booleans that is not None, else False
FirstBool(a, b) == IF a.p = "val" THEN a ELSE IF b.p = "val" THEN b ELSE Value(FALSE)

\* StudentV2Service._doc_to_student
V2DocToStudent(id, data, t) ==
    LET st == [id |-> id,
               name |-> OrElseStr(DocGet(data, "name"), Value("Unknown Student")),
               email |-> OrElseStr(DocGet(data, "email"), Value("unknown@example.com")),
               country |-> OrElseStr(DocGet(data, "country"), Value("Unknown")),
               phone |-> DocGet(data, "phone"),
               status |-> OrElseStr(DocGet(data, "status"), Value("Exploring")),
               created_at |-> OrElse(DocGet(data, "created_at"),
                                     DocGetDefault(data, "createdAt", t)),
               last_active |-> OrElse(DocGet(data, "last_active"),
                                      DocGetDefault(data, "lastActive", t)),
               last_contacted_at |-> OrElse(DocGet(data, "last_contacted_at"),
                                            DocGet(data, "lastContactedAt")),
               high_intent |-> FirstBool(DocGet(data, "high_intent"),
                                         DocGet(data, "highIntent")),
               needs_essay_help |-> FirstBool(DocGet(data, "needs_essay_help"),
                                              DocGet(data, "needsEssayHelp")),
               additional_data |-> OrElseMap(DocGet(data, "additional_data"),
                                             DocGet(data, "additionalData"))]
    IN IF ValidStudent(st) THEN Returned(st) ELSE Raised

\* keys StudentService._doc_to_student subscripts (data["..."])
V1RequiredKeys == {"name", "email", "country", "status", "createdAt", "lastActive"}

\* StudentService._doc_to_student
V1DocToStudent(id, data) ==
    LET st == [id |-> id,
               name |-> DocGet(data, "name"),
               email |-> DocGet(data, "email"),
               country |-> DocGet(data, "country"),
               phone |-> DocGet(data, "phone"),
               status |-> DocGet(data, "status"),
               created_at |-> DocGet(data, "createdAt"),
               last_active |-> DocGet(data, "lastActive"),
               last_contacted_at |-> DocGet(data, "lastContactedAt"),
               high_intent |-> DocGetDefault(data, "highIntent", FALSE),
               needs_essay_help |-> DocGetDefault(data, "needsEssayHelp", FALSE),
               additional_data |-> DocGet(data, "additionalData")]
    IN IF V1RequiredKeys \subseteq Keys(data) /\ ValidStudent(st)
       THEN Returned(st) ELSE Raised

(***************************************************************************)
(* What an operation reports: its name, service generation, arguments and  *)
(* result.  Fields an operation does not use keep their default.           *)
(***************************************************************************)
NoCreate ==
    [name |-> "", email |-> "", country |-> "", phone |-> Null("phone"),
     status |-> "", high_intent |-> FALSE, needs_essay_help |-> FALSE]

NoSearch ==
    [query |-> "", limit |-> 0, offset |-> 0,
     status_filter |-> Null("status"), country_filter |-> Null("country"),
     high_intent_only |-> FALSE, needs_essay_help_only |-> FALSE,
     not_contacted_7_days |-> FALSE]

\* no StudentSearchResponse; filtered is the list the page is cut from
NoResponse ==
    [filtered |-> <<>>, students |-> <<>>, total |-> 0, page |-> 0,
     limit |-> 0, has_more |-> FALSE]

\* no event returned, and no body of a note update
NoEvent ==
    [id |-> 0, student_id |-> 0, type |-> "", created_at |-> 0, created_by |-> "",
     title |-> Absent("name"), content |-> Absent("name"),
     follow_up_required |-> FALSE, follow_up_date |-> Null("created_at"),
     student_name |-> Null("name"), student_email |-> Null("email")]

NoPatch == [title |-> Absent("name"), content |-> Absent("name")]

\* no dashboard statistics
NoStats ==
    [total_students |-> 0, status_breakdown |-> [x \in StudentStatus |-> 0],
     country_breakdown |-> [c \in Countries |-> 0],
     high_intent_count |-> 0, needs_essay_help_count |-> 0,
     applications_in_progress |-> 0, upcoming_reminders |-> 0,
     overdue_reminders |-> 0, total_reminders |-> 0]

\* no EmailSendResponse, and no answer of the email transport
NoEmail == [success |-> FALSE, message_id |-> Null("name"), error |-> Null("name")]
NoAnswer == [kind |-> "", status |-> 0, body |-> ""]

\* no analytics
NoAnalytics ==
    [date_range_days |-> 0, totalStudents |-> 0, newStudents |-> 0,
     studentsNotContacted7Days |-> 0, newStudentsThisWeek |-> 0,
     newStudentsThisMonth |-> 0]

\* no StudentBulkImport body and no StudentBulkImportResult
NoBulk ==
    [students |-> <<>>, validate_only |-> FALSE, success |-> TRUE,
     imported |-> 0, failed |-> 0, errors |-> <<>>]

Report(op, svc, sid, outcome) ==
    [op |-> op, svc |-> svc, sid |-> sid, outcome |-> outcome, at |-> now,
     create |-> NoCreate, dict |-> EmptyDict, student |-> NoStudent,
     filter |-> "", events |-> <<>>,
     request |-> NoSearch, response |-> NoResponse, bulk |-> NoBulk,
     event |-> NoEvent, patch |-> NoPatch, stats |-> NoStats,
     email |-> NoEmail, answer |-> NoAnswer, count |-> 0, fault |-> FALSE,
     analytics |-> NoAnalytics]

(***************************************************************************)
(* Requests in flight.  The store is shared by every server process that   *)
(* runs the services; a request is a call that goes from one store call to *)
(* the next, and between two store calls of one call a call served by      *)
(* another process may run.                                                *)
(***************************************************************************)
Procs == {"p", "q"}

Idle ==
    [op |-> "idle", pc |-> "", sid |-> 0, create |-> NoCreate, upd |-> EmptyDict,
     pending |-> {}, ids |-> <<>>, found |-> {},
     seen |-> [i \in StudentIds |-> NoDoc], fault |-> FALSE]

(***************************************************************************)
(* Student Directory: create.                                              *)
(***************************************************************************)
\* a create that stamps last_contacted_at as well
V2CreateDataContacted(d, t) ==
    Dict([name |-> Value(d.name), email |-> Value(d.email),
          country |-> Value(d.country), phone |-> d.phone,
          created_at |-> Value(t), status |-> Value(d.status),
          last_active |-> Value(t), last_contacted_at |-> Value(t),
          high_intent |-> Value(d.high_intent),
          needs_essay_help |-> Value(d.needs_essay_help)])

\* firestore_data of StudentV2Service.create_student
V2CreateData(d, t) ==
    Dict([name |-> Value(d.name), email |-> Value(d.email),
          country |-> Value(d.country), phone |-> d.phone,
          created_at |-> Value(t), status |-> Value(d.status),
          last_active |-> Value(t), last_contacted_at |-> Null("last_contacted_at"),
          high_intent |-> Value(d.high_intent),
          needs_essay_help |-> Value(d.needs_essay_help)])

\* firestore_data of StudentService.create_student
V1CreateData(d, t) ==
    Dict([name |-> Value(d.name), email |-> Value(d.email),
          phone |-> d.phone, country |-> Value(d.country),
          status |-> Value(d.status), highIntent |-> Value(d.high_intent),
          needsEssayHelp |-> Value(d.needs_essay_help),
          createdAt |-> Value(t), lastActive |-> Value(t),
          lastContactedAt |-> Null("lastContactedAt")])

CreateData(svc, d, t) == IF svc = "v1" THEN V1CreateData(d, t) ELSE V2CreateData(d, t)

DocToStudent(svc, id, data, t) ==
    IF svc = "v1" THEN V1DocToStudent(id, data) ELSE V2DocToStudent(id, data, t)

\* create_student of either generation
CreateStudent(svc, d) ==
    /\ nextId <= MaxStudents
    /\ IF WhereEmail(students, d.email) # {}
       THEN /\ last' = [Report("create_student", svc, 0, "ValueError")
                          EXCEPT !.create = d]
            /\ UNCHANGED <<students, nextId>>
       ELSE LET data == CreateData(svc, d, now)
                r == DocToStudent(svc, nextId, data, now)
            IN /\ students' = [students EXCEPT ![nextId] = Doc(data)]
               /\ nextId' = nextId + 1
               /\ last' = [Report("create_student", svc, nextId,
                                  IF r.ok THEN "ok" ELSE "Exception")
                             EXCEPT !.create = d, !.student = r.student]
    /\ UNCHANGED <<timeline, now, nextEvent, tasks, reminders, nextItem, calls, api_key, posted>>

(***************************************************************************)
(* Student Directory: get.                                                 *)
(***************************************************************************)
\* StudentV2Service.get_student: every exception is caught and None returned
V2GetStudent(store, id, t) ==
    IF ~store[id].exists THEN [outcome |-> "None", student |-> NoStudent]
    ELSE LET r == V2DocToStudent(id, store[id].data, t)
         IN IF r.ok THEN [outcome |-> "ok", student |-> r.student]
            ELSE [outcome |-> "None", student |-> NoStudent]

\* StudentService.get_student: an exception is re-raised
V1GetStudent(store, id) ==
    IF ~store[id].exists THEN [outcome |-> "None", student |-> NoStudent]
    ELSE LET r == V1DocToStudent(id, store[id].data)
         IN IF r.ok THEN [outcome |-> "ok", student |-> r.student]
            ELSE [outcome |-> "Exception", student |-> NoStudent]

GetStudentResult(svc, store, id, t) ==
    IF svc = "v1" THEN V1GetStudent(store, id) ELSE V2GetStudent(store, id, t)

GetStudent(svc, id) ==
    /\ LET r == GetStudentResult(svc, students, id, now)
       IN last' = [Report("get_student", svc, id, r.outcome)
                     EXCEPT !.student = r.student]
    /\ UNCHANGED <<students, timeline, now, nextId, nextEvent, tasks, reminders, nextItem, calls, api_key, posted>>

(***************************************************************************)
(* Student Directory: update.  A StudentUpdate body is a dict over the     *)
(* model's field names; a field that is None counts as not supplied, and   *)
(* pydantic drops the fields the generation's StudentUpdate does not name. *)
(***************************************************************************)
V2UpdateFields == {"status", "last_active", "last_contacted_at",
                   "high_intent", "needs_essay_help"}
V1UpdateFields == {"name", "email", "phone", "country", "status",
                   "high_intent", "needs_essay_help"}

\* an update that writes None for the fields the body leaves out
V2UpdateDataClearing(patch) ==
    [k \in AllKeys |->
        IF k \in V2UpdateFields
        THEN (IF patch[k].p = "val" THEN patch[k] ELSE Null(k))
        ELSE Absent(k)]

\* update_data of StudentV2Service.update_student
V2UpdateData(patch) ==
    [k \in AllKeys |->
        IF k \in V2UpdateFields /\ patch[k].p = "val" THEN patch[k] ELSE Absent(k)]

\* the stored key StudentService.update_student writes a field to
V1Key(f) ==
    CASE f = "high_intent" -> "highIntent"
      [] f = "needs_essay_help" -> "needsEssayHelp"
      [] OTHER -> f

\* update_data of StudentService.update_student
V1UpdateData(patch, t) ==
    [k \in AllKeys |->
        IF k = "lastActive" THEN Value(t)
        ELSE IF \E f \in V1UpdateFields : V1Key(f) = k /\ patch[f].p = "val"
             THEN patch[CHOOSE f \in V1UpdateFields : V1Key(f) = k]
             ELSE Absent(k)]

\* StudentV2Service.update_student
V2UpdateStudent(id, patch) ==
    IF ~students[id].exists
    THEN /\ last' = [Report("update_student", "v2", id, "None") EXCEPT !.dict = patch]
         /\ UNCHANGED students
    ELSE LET upd == V2UpdateData(patch)
             after == IF Keys(upd) = {} THEN students
                      ELSE [students EXCEPT ![id] = Doc(Merge(students[id].data, upd))]
             r == V2GetStudent(after, id, now)
         IN /\ students' = after
            /\ last' = [Report("update_student", "v2", id, r.outcome)
                          EXCEPT !.dict = patch, !.student = r.student]

\* StudentService.update_student
V1UpdateStudent(id, patch) ==
    IF ~students[id].exists
    THEN /\ last' = [Report("update_student", "v1", id, "None") EXCEPT !.dict = patch]
         /\ UNCHANGED students
    ELSE LET data == Merge(students[id].data, V1UpdateData(patch, now))
             r == V1DocToStudent(id, data)
         IN /\ students' = [students EXCEPT ![id] = Doc(data)]
            /\ last' = [Report("update_student", "v1", id,
                               IF r.ok THEN "ok" ELSE "Exception")
                          EXCEPT !.dict = patch, !.student = r.student]

UpdateStudent(svc, id, patch) ==
    /\ IF svc = "v1" THEN V1UpdateStudent(id, patch) ELSE V2UpdateStudent(id, patch)
    /\ UNCHANGED <<timeline, now, nextId, nextEvent, tasks, reminders, nextItem, calls, api_key, posted>>

\* DocumentReference.update on the students collection followed by the
\* re-read and normalization of the document; update raises NotFound for a
\* missing document and writes nothing
UpdateAndReturn(op, id, arg, upd) ==
    IF ~students[id].exists
    THEN /\ last' = [Report(op, "v2", id, "Exception") EXCEPT !.dict = arg]
         /\ UNCHANGED students
    ELSE LET data == Merge(students[id].data, upd)
             r == V2DocToStudent(id, data, now)
         IN /\ students' = [students EXCEPT ![id] = Doc(data)]
            /\ last' = [Report(op, "v2", id, IF r.ok THEN "ok" ELSE "Exception")
                          EXCEPT !.dict = arg, !.student = r.student]

\* StudentV2Service.update_student_last_active
UpdateStudentLastActive(id) ==
    /\ UpdateAndReturn("update_student_last_active", id, EmptyDict,
                       Dict([last_active |-> Value(now)]))
    /\ UNCHANGED <<timeline, now, nextId, nextEvent, tasks, reminders, nextItem, calls, api_key, posted>>

\* firestore_data of StudentV2Service.update_student_checkboxes: the two
\* camelCase keys are renamed, every other key of the body is passed through
CheckboxData(box) ==
    [k \in AllKeys |->
        CASE k = "high_intent" ->
               IF box["highIntent"].p # "absent" THEN box["highIntent"] ELSE box[k]
          [] k = "needs_essay_help" ->
               IF box["needsEssayHelp"].p # "absent" THEN box["needsEssayHelp"] ELSE box[k]
          [] k \in {"highIntent", "needsEssayHelp"} -> Absent(k)
          [] OTHER -> box[k]]

\* StudentV2Service.update_student_checkboxes
UpdateStudentCheckboxes(id, box) ==
    /\ UpdateAndReturn("update_student_checkboxes", id, box, CheckboxData(box))
    /\ UNCHANGED <<timeline, now, nextId, nextEvent, tasks, reminders, nextItem, calls, api_key, posted>>

(***************************************************************************)
(* Student Directory: delete.                                              *)
(***************************************************************************)
\* a delete that skips the cascade
CascadeNothing(tl, id) == {}

\* the timeline documents StudentV2Service.delete_student streams and deletes
CascadeDocs(tl, id) == tl[id]

\* StudentV2Service.delete_student: the cascade runs before the existence test
V2DeleteStudent(id) ==
    /\ timeline' = [timeline EXCEPT ![id] = timeline[id] \ CascadeDocs(timeline, id)]
    /\ IF ~students[id].exists
       THEN /\ last' = Report("delete_student", "v2", id, "False")
            /\ UNCHANGED students
       ELSE /\ students' = [students EXCEPT ![id] = NoDoc]
            /\ last' = Report("delete_student", "v2", id, "True")
    /\ UNCHANGED <<now, nextId, nextEvent, tasks, reminders, nextItem, calls, api_key, posted>>

\* StudentService.delete_student: the student document only
V1DeleteStudent(id) ==
    /\ IF ~students[id].exists
       THEN /\ last' = Report("delete_student", "v1", id, "False")
            /\ UNCHANGED students
       ELSE /\ students' = [students EXCEPT ![id] = NoDoc]
            /\ last' = Report("delete_student", "v1", id, "True")
    /\ UNCHANGED <<timeline, now, nextId, nextEvent, tasks, reminders, nextItem, calls, api_key, posted>>

DeleteStudent(svc, id) ==
    IF svc = "v1" THEN V1DeleteStudent(id) ELSE V2DeleteStudent(id)

(***************************************************************************)
(* Timeline Store: append.  The five create_* methods differ in the        *)
(* variant fields only; an event carries the fields they share.            *)
(***************************************************************************)
\* a text field of an event that is missing, None or set; an unset date
AbsentStr == Absent("name")
NullStr == Null("name")
NoDate == Null("created_at")

\* an event document with data["id"] and data["student_id"] set, which is
\* also the shape of the record the normalizers return
EventOf(e, sid) ==
    [id |-> e.id, student_id |-> sid, type |-> e.type, created_at |-> e.created_at,
     created_by |-> e.created_by, title |-> e.title, content |-> e.content,
     follow_up_required |-> e.follow_up_required,
     follow_up_date |-> e.follow_up_date,
     student_name |-> Null("name"), student_email |-> Null("email")]

\* firestore_data of create_interaction, create_communication, create_note,
\* create_task and create_reminder
EventData(eid, type, t) ==
    [id |-> eid, type |-> type, created_at |-> t, created_by |-> "CRM Team",
     title |-> IF type \in {"note", "task", "reminder"} THEN Value("Title") ELSE AbsentStr,
     content |-> IF type \in {"note", "communication"} THEN Value("Text") ELSE AbsentStr,
     follow_up_required |-> FALSE, follow_up_date |-> NoDate]

\* an interaction stored without its follow-up date
InteractionDataUndated(eid, t, body) ==
    [EventData(eid, "interaction", t) EXCEPT
        !.follow_up_required = body.follow_up_required]

\* firestore_data of create_interaction for a body that carries
\* follow_up_required and follow_up_date
InteractionData(eid, t, body) ==
    [EventData(eid, "interaction", t) EXCEPT
        !.follow_up_required = body.follow_up_required,
        !.follow_up_date = body.follow_up_date]

\* collection("timeline").add(data) and the normalized record of the new
\* event; no test that the student document exists precedes the add
AppendEvent(id, data) ==
    /\ nextEvent <= MaxEvents
    /\ timeline' = [timeline EXCEPT ![id] = timeline[id] \cup {data}]
    /\ nextEvent' = nextEvent + 1
    /\ last' = [Report("create_" \o data.type, "v2", id, "ok")
                  EXCEPT !.event = EventOf(data, id)]
    /\ UNCHANGED <<students, now, nextId, tasks, reminders, nextItem, calls, api_key, posted>>

\* the five create_* methods, with the defaults of the body's optional fields
CreateEvent(id, type) == AppendEvent(id, EventData(nextEvent, type, now))

\* StudentV2Service.create_interaction
CreateInteraction(id, body) == AppendEvent(id, InteractionData(nextEvent, now, body))

(***************************************************************************)
(* Timeline Store: reads.  A result is a sequence of event records         *)
(* [id, student_id, type, created_at, created_by, student_name,            *)
(* student_email]; the last two are set by the aggregate reads only.       *)
(***************************************************************************)
\* the documents of one timeline, each with data["id"] and data["student_id"] set
TimelineOf(tl, sid) == {EventOf(e, sid) : e \in tl[sid]}

\* an ordering that starts with the oldest document
FirestoreOldestFirst(S) ==
    CHOOSE x \in S : \A y \in S \ {x} :
        \/ x.created_at < y.created_at
        \/ x.created_at = y.created_at /\ x.id < y.id

\* order_by("created_at", DESCENDING): ties fall back to the document id,
\* in the same direction
FirestoreFirst(S) ==
    CHOOSE x \in S : \A y \in S \ {x} :
        \/ x.created_at > y.created_at
        \/ x.created_at = y.created_at /\ x.id > y.id

RECURSIVE OrderByCreatedDesc(_)
OrderByCreatedDesc(S) ==
    IF S = {} THEN <<>>
    ELSE LET x == FirestoreFirst(S) IN <<x>> \o OrderByCreatedDesc(S \ {x})

\* a stream without order_by yields documents by id; the aggregates stream
\* student by student
StreamFirst(S) ==
    CHOOSE x \in S : \A y \in S \ {x} :
        \/ x.student_id < y.student_id
        \/ x.student_id = y.student_id /\ x.id < y.id

\* list.sort(key = created_at, reverse = True) on the streamed list: the
\* sort is stable, equal keys keep the order of the stream
SortFirst(S) ==
    LET newest == {x \in S : \A y \in S : x.created_at >= y.created_at}
    IN StreamFirst(newest)

RECURSIVE SortCreatedDesc(_)
SortCreatedDesc(S) ==
    IF S = {} THEN <<>>
    ELSE LET x == SortFirst(S) IN <<x>> \o SortCreatedDesc(S \ {x})

\* _doc_to_interaction, _doc_to_communication, _doc_to_note, _doc_to_task
\* and _doc_to_reminder return a record unless a required text field of the
\* variant is missing or None (KeyError or a pydantic validation error)
Normalizes(e) ==
    CASE e.type = "note" -> e.title.p = "val" /\ e.content.p = "val"
      [] e.type = "communication" -> e.content.p = "val"
      [] e.type \in {"task", "reminder"} -> e.title.p = "val"
      [] OTHER -> TRUE

\* the try/except of the list reads: when normalizing one of the fetched
\* documents raises, the read returns the empty list
ListOrEmpty(ordered) ==
    IF \A i \in 1..Len(ordered) : Normalizes(ordered[i]) THEN ordered ELSE <<>>

\* StudentV2Service.get_timeline_events; filter "" stands for event_type None
GetTimelineEventsResult(tl, sid, filter) ==
    LET fetched == {e \in TimelineOf(tl, sid) :
                      /\ filter = "" \/ e.type = filter
                      /\ e.type \in TimelineEventType}
    IN ListOrEmpty(OrderByCreatedDesc(fetched))

\* StudentV2Service.get_student_interactions / _communications / _notes
GetStudentEventsResult(tl, sid, type) ==
    LET fetched == {e \in TimelineOf(tl, sid) : e.type = type}
    IN ListOrEmpty(SortCreatedDesc(fetched))

\* the top-level "communications" collection of the first schema generation;
\* no operation of the services adds a document to it
LegacyCommunications == {}

\* the timeline events of one type of every student that has a document,
\* joined with the student's name and email
JoinedEvents(store, tl, type) ==
    UNION { { [e EXCEPT !.student_name = DocGetDefault(store[sid].data, "name", "Unknown"),
                        !.student_email = DocGetDefault(store[sid].data, "email", "Unknown")]
              : e \in {x \in TimelineOf(tl, sid) : x.type = type} }
            : sid \in DocIds(store) }

\* StudentV2Service.get_all_communications
GetAllCommunicationsResult(store, tl) ==
    SortCreatedDesc({c \in LegacyCommunications : c.student_id \in DocIds(store)}
                    \cup JoinedEvents(store, tl, "communication"))

\* StudentV2Service.get_all_interactions
GetAllInteractionsResult(store, tl) ==
    SortCreatedDesc(JoinedEvents(store, tl, "interaction"))

ReadReport(op, sid, filter, events) ==
    /\ last' = [Report(op, "v2", sid, "ok")
                  EXCEPT !.filter = filter, !.events = events, !.count = Len(events)]
    /\ UNCHANGED <<students, timeline, now, nextId, nextEvent, tasks, reminders, nextItem, calls, api_key, posted>>

GetTimelineEvents(sid, filter) ==
    ReadReport("get_timeline_events", sid, filter,
               GetTimelineEventsResult(timeline, sid, filter))

GetStudentInteractions(sid) ==
    ReadReport("get_student_interactions", sid, "",
               GetStudentEventsResult(timeline, sid, "interaction"))

GetStudentCommunications(sid) ==
    ReadReport("get_student_communications", sid, "",
               GetStudentEventsResult(timeline, sid, "communication"))

GetStudentNotes(sid) ==
    ReadReport("get_student_notes", sid, "",
               GetStudentEventsResult(timeline, sid, "note"))

GetAllCommunications ==
    ReadReport("get_all_communications", 0, "",
               GetAllCommunicationsResult(students, timeline))

GetAllInteractions ==
    ReadReport("get_all_interactions", 0, "",
               GetAllInteractionsResult(students, timeline))

(***************************************************************************)
(* Timeline Store: changing and removing one event.                        *)
(***************************************************************************)
\* an update that writes the empty text for a body without content
NoteUpdateDataEmptyContent(patch) ==
    [content |-> IF patch.content.p = "val" THEN patch.content ELSE Value(""),
     title |-> IF patch.title.p = "absent" THEN Value("Internal Note")
               ELSE IF patch.title.p = "val" THEN patch.title ELSE NullStr]

\* the map update_student_note writes: content is note_data.get("content"),
\* title is note_data.get("title", "Internal Note")
NoteUpdateData(patch) ==
    [content |-> IF patch.content.p = "val" THEN patch.content ELSE NullStr,
     title |-> IF patch.title.p = "absent" THEN Value("Internal Note")
               ELSE IF patch.title.p = "val" THEN patch.title ELSE NullStr]

\* _doc_to_note on an event document of any type
DocToNote(e) == e.title.p = "val" /\ e.content.p = "val"

\* StudentV2Service.update_student_note: the document of that id in the
\* student's timeline is updated whatever its type; update raises NotFound
\* for a missing document and writes nothing
UpdateStudentNote(sid, nid, patch) ==
    /\ IF \E e \in timeline[sid] : e.id = nid
       THEN LET e == CHOOSE e \in timeline[sid] : e.id = nid
                upd == NoteUpdateData(patch)
                new == [e EXCEPT !.content = upd.content, !.title = upd.title]
            IN /\ timeline' = [timeline EXCEPT ![sid] = (@ \ {e}) \cup {new}]
               /\ last' = [Report("update_student_note", "v2", sid,
                                  IF DocToNote(new) THEN "ok" ELSE "Exception")
                             EXCEPT !.patch = patch,
                                    !.event = [EventOf(new, sid) EXCEPT !.type = "note"]]
       ELSE /\ last' = [Report("update_student_note", "v2", sid, "Exception")
                          EXCEPT !.patch = patch]
            /\ UNCHANGED timeline
    /\ UNCHANGED <<students, now, nextId, nextEvent, tasks, reminders, nextItem, calls, api_key, posted>>

\* StudentV2Service.delete_student_note: DocumentReference.delete() of the
\* document of that id, of any type; deleting a missing document is no error
DeleteStudentNote(sid, nid) ==
    /\ timeline' = [timeline EXCEPT ![sid] = {e \in @ : e.id # nid}]
    /\ last' = Report("delete_student_note", "v2", sid, "ok")
    /\ UNCHANGED <<students, now, nextId, nextEvent, tasks, reminders, nextItem, calls, api_key, posted>>

(***************************************************************************)
(* Student Directory: search (first generation).                           *)
(***************************************************************************)
NotContactedDays == 7
HoursPerDay == 24

\* a search that compares the query as it was typed
SearchQueryAsTyped(q) == Chars(q)

\* search_query = search_request.query.lower()
SearchQuery(q) == Lower(Chars(q))

\* the text test of the first loop
TextMatch(q, st) ==
    \/ IsSubstring(SearchQuery(q), Lower(Chars(st.name.v)))
    \/ IsSubstring(SearchQuery(q), Lower(Chars(st.email.v)))
    \/ IsSubstring(SearchQuery(q), Lower(Chars(st.country.v)))

\* (datetime.utcnow() - student.last_contacted_at).days
DaysSinceContact(st, t) == (t - st.last_contacted_at.v) \div HoursPerDay

\* the second loop: a student is dropped by the first filter that says
\* "continue" and kept when none does
PassesFilters(req, st, t) ==
    IF req.status_filter.p = "val" /\ st.status.v # req.status_filter.v THEN FALSE
    ELSE IF /\ req.country_filter.p = "val" /\ req.country_filter.v # ""
            /\ ~IsSubstring(Lower(Chars(req.country_filter.v)),
                            Lower(Chars(st.country.v))) THEN FALSE
    ELSE IF req.high_intent_only /\ ~st.high_intent.v THEN FALSE
    ELSE IF req.needs_essay_help_only /\ ~st.needs_essay_help.v THEN FALSE
    ELSE IF /\ req.not_contacted_7_days /\ st.last_contacted_at.p = "val"
            /\ DaysSinceContact(st, t) <= NotContactedDays THEN FALSE
    ELSE TRUE

\* query.stream(): the documents of the collection, by document id
RECURSIVE StreamStudents(_)
StreamStudents(ids) ==
    IF ids = {} THEN <<>>
    ELSE LET i == CHOOSE i \in ids : \A j \in ids : i <= j
         IN <<i>> \o StreamStudents(ids \ {i})

\* a slice that always starts at the head of the list
SliceFromHead(seq, start, end) ==
    LET hi == IF end - start < Len(seq) THEN end - start ELSE Len(seq)
    IN SubSeq(seq, 1, hi)

\* filtered_students[start_idx:end_idx]
Slice(seq, start, end) ==
    LET hi == IF end < Len(seq) THEN end ELSE Len(seq)
    IN IF start >= hi THEN <<>> ELSE SubSeq(seq, start + 1, hi)

\* StudentService.search_students: every document is normalized (one that
\* the normalizer rejects fails the whole search), then the two loops and
\* the pagination
SearchStudentsResult(store, req, t) ==
    LET docs == StreamStudents(DocIds(store))
        Norm(i) == V1DocToStudent(i, store[i].data)
    IN IF \E i \in DocIds(store) : ~Norm(i).ok
       THEN [outcome |-> "Exception", response |-> NoResponse]
       ELSE LET Text(st) == TextMatch(req.query, st)
                Keep(st) == PassesFilters(req, st, t)
                all_students ==
                    SelectSeq([k \in 1..Len(docs) |-> Norm(docs[k]).student], Text)
                filtered_students == SelectSeq(all_students, Keep)
                total == Len(filtered_students)
                end_idx == req.offset + req.limit
                page == Slice(filtered_students, req.offset, end_idx)
            IN [outcome |-> "ok",
                response |->
                    [filtered |-> [k \in 1..total |-> filtered_students[k].id],
                     students |-> [k \in 1..Len(page) |-> page[k].id],
                     total |-> total,
                     page |-> (req.offset \div req.limit) + 1,
                     limit |-> req.limit,
                     has_more |-> end_idx < total]]

SearchStudents(req) ==
    /\ LET r == SearchStudentsResult(students, req, now)
       IN last' = [Report("search_students", "v1", 0, r.outcome)
                     EXCEPT !.request = req, !.response = r.response]
    /\ UNCHANGED <<students, timeline, now, nextId, nextEvent, tasks, reminders, nextItem, calls, api_key, posted>>

(***************************************************************************)
(* Standalone reminders and the dashboard statistics.  A reminder document *)
(* is [id, title, reminder_date], the date counted in days.                *)
(***************************************************************************)
GetStudentsLimit == 100

\* StudentV2Service.create_standalone_reminder: ReminderCreate.reminder_date
\* is a datetime, and datetime.strptime of a datetime raises TypeError
\* before anything is written
CreateStandaloneReminder(date) ==
    /\ last' = Report("create_standalone_reminder", "v2", 0, "Exception")
    /\ UNCHANGED <<students, timeline, now, nextId, nextEvent, tasks, reminders, nextItem, calls, api_key, posted>>

\* a document of the reminders collection in the shape the method above
\* means to write, added by another client of the document store
StoreReminder(date) ==
    /\ nextItem <= MaxItems
    /\ reminders' = reminders \cup
          {[id |-> nextItem, title |-> Value("Call"), reminder_date |-> date]}
    /\ nextItem' = nextItem + 1
    /\ last' = Report("store_reminder", "-", 0, "ok")
    /\ UNCHANGED <<students, timeline, now, nextId, nextEvent, tasks, calls, api_key, posted>>

\* StudentV2Service.get_students(skip = 0, limit = 100): [] when normalizing
\* one of the documents raises
GetStudentsResult(store, t) ==
    LET docs == StreamStudents(DocIds(store))
        page == Slice(docs, 0, GetStudentsLimit)
    IN IF \A k \in 1..Len(page) : V2DocToStudent(page[k], store[page[k]].data, t).ok
       THEN [k \in 1..Len(page) |-> V2DocToStudent(page[k], store[page[k]].data, t).student]
       ELSE <<>>

\* StudentV2Service.get_all_reminders: _doc_to_reminder needs data["title"]
GetAllRemindersResult(rem) ==
    IF \A r \in rem : r.title.p = "val" THEN rem ELSE {}

\* StudentV2Service.get_dashboard_stats: the tallies of the loop over the
\* students, and the reminder counts taken from two lists that stay empty
DashboardStats(store, rem, t) ==
    LET sts == GetStudentsResult(store, t)
        rs == GetAllRemindersResult(rem)
        HighIntent(st) == st.high_intent.v
        NeedsHelp(st) == st.needs_essay_help.v
        InProgress(st) == st.status.v \in {"Applying", "Submitted"}
        upcoming_reminders == <<>>
        overdue_reminders == <<>>
    IN [total_students |-> Len(sts),
        status_breakdown |->
            [x \in StudentStatus |->
                LET Has(st) == st.status.v = x IN Len(SelectSeq(sts, Has))],
        country_breakdown |->
            [c \in Countries |->
                LET From(st) == st.country.v = c IN Len(SelectSeq(sts, From))],
        high_intent_count |-> Len(SelectSeq(sts, HighIntent)),
        needs_essay_help_count |-> Len(SelectSeq(sts, NeedsHelp)),
        applications_in_progress |-> Len(SelectSeq(sts, InProgress)),
        upcoming_reminders |-> Len(upcoming_reminders),
        overdue_reminders |-> Len(overdue_reminders),
        total_reminders |-> Cardinality(rs)]

GetDashboardStats ==
    /\ last' = [Report("get_dashboard_stats", "v2", 0, "ok")
                  EXCEPT !.stats = DashboardStats(students, reminders, now)]
    /\ UNCHANGED <<students, timeline, now, nextId, nextEvent, tasks, reminders, nextItem, calls, api_key, posted>>

(***************************************************************************)
(* Standalone tasks: the "tasks" collection.  A task document is           *)
(* [id, data], data a dictionary over TaskKeys with text values; an owner  *)
(* is the text of a student id or "standalone".                            *)
(***************************************************************************)
TaskKeys == {"title", "status", "due_date", "student_id", "student_name"}

AbsentText == [p |-> "absent", v |-> ""]
NullText == [p |-> "null", v |-> ""]

\* StudentV2Service.create_standalone_task: firestore_data (the description,
\* priority and creation stamps, which no later step reads, are left out)
StandaloneTaskData(body) ==
    [k \in TaskKeys |->
        CASE k = "title" -> Value(body.title)
          [] k = "status" -> Value(body.status)
          [] k = "due_date" -> body.due_date
          [] k = "student_id" ->
                IF body.student_id.p = "val" /\ body.student_id.v # ""
                THEN body.student_id ELSE Value("standalone")
          [] k = "student_name" ->
                IF body.student_name.p = "val" /\ body.student_name.v # ""
                THEN body.student_name ELSE AbsentText]

\* _doc_to_task: data["title"] and data["status"] must be there and be text
DocToTask(data) == data["title"].p = "val" /\ data["status"].p = "val"

CreateStandaloneTask(body) ==
    /\ nextItem <= MaxItems
    /\ tasks' = tasks \cup {[id |-> nextItem, data |-> StandaloneTaskData(body)]}
    /\ nextItem' = nextItem + 1
    /\ last' = Report("create_standalone_task", "v2", 0, "ok")
    /\ UNCHANGED <<students, timeline, now, nextId, nextEvent, reminders, calls, api_key, posted>>

\* update_task: the stored key a key of the request body is written under
TaskKeyOf(key) ==
    CASE key = "due" -> "due_date"
      [] key = "studentId" -> "student_id"
      [] key = "studentName" -> "student_name"
      [] OTHER -> key

\* update_task: firestore_data, filled in the order of the body's items
RECURSIVE TaskUpdateData(_)
TaskUpdateData(items) ==
    IF items = <<>> THEN [k \in TaskKeys |-> AbsentText]
    ELSE LET n == Len(items)
         IN [TaskUpdateData(SubSeq(items, 1, n - 1))
               EXCEPT ![TaskKeyOf(items[n].key)] = items[n].value]

\* StudentV2Service.update_task: update raises NotFound for a missing
\* document and writes nothing
UpdateTask(tid, items) ==
    /\ IF \E t \in tasks : t.id = tid
       THEN LET t == CHOOSE t \in tasks : t.id = tid
                upd == TaskUpdateData(items)
                data == [k \in TaskKeys |->
                            IF upd[k].p # "absent" THEN upd[k] ELSE t.data[k]]
            IN /\ tasks' = (tasks \ {t}) \cup {[id |-> tid, data |-> data]}
               /\ last' = Report("update_task", "v2", 0,
                                 IF DocToTask(data) THEN "ok" ELSE "Exception")
       ELSE /\ last' = Report("update_task", "v2", 0, "Exception")
            /\ UNCHANGED tasks
    /\ UNCHANGED <<students, timeline, now, nextId, nextEvent, reminders, nextItem, calls, api_key, posted>>

\* StudentV2Service.delete_task
DeleteTask(tid) ==
    /\ tasks' = {t \in tasks : t.id # tid}
    /\ last' = Report("delete_task", "v2", 0, "ok")
    /\ UNCHANGED <<students, timeline, now, nextId, nextEvent, reminders, nextItem, calls, api_key, posted>>

(***************************************************************************)
(* Student Directory: bulk import (first generation).                      *)
(***************************************************************************)
MaxBatch == 3       \* students in one import request

\* a loop that stops at the first failing item
AbortAfterFailure(rest) == <<>>

\* the except branch of the loop body: the failure is recorded and the loop
\* goes on with the items that follow
AfterFailure(rest) == rest

\* StudentService.create_student on a given store: [ok, store, nid]
V1CreateResult(store, nid, d, t) ==
    IF WhereEmail(store, d.email) # {}
    THEN [ok |-> FALSE, store |-> store, nid |-> nid]
    ELSE LET data == V1CreateData(d, t)
         IN [ok |-> V1DocToStudent(nid, data).ok,
             store |-> [store EXCEPT ![nid] = Doc(data)],
             nid |-> nid + 1]

\* a loop body that creates the student whatever validate_only says
ItemResultAlwaysCreating(validate_only, store, nid, d, t) ==
    V1CreateResult(store, nid, d, t)

\* the try block of the loop body: create_student unless validate_only
ItemResult(validate_only, store, nid, d, t) ==
    IF validate_only THEN [ok |-> TRUE, store |-> store, nid |-> nid]
    ELSE V1CreateResult(store, nid, d, t)

\* the for loop of bulk_import_students from item number row on; acc holds
\* imported, failed and errors so far
RECURSIVE ImportLoop(_, _, _, _, _, _, _)
ImportLoop(rest, row, validate_only, store, nid, t, acc) ==
    IF rest = <<>> THEN [store |-> store, nid |-> nid, acc |-> acc]
    ELSE LET d == Head(rest)
             r == ItemResult(validate_only, store, nid, d, t)
         IN IF r.ok
            THEN ImportLoop(Tail(rest), row + 1, validate_only, r.store, r.nid, t,
                            [acc EXCEPT !.imported = @ + 1])
            ELSE ImportLoop(AfterFailure(Tail(rest)), row + 1, validate_only,
                            r.store, r.nid, t,
                            [acc EXCEPT !.failed = @ + 1,
                                        !.errors = Append(@, [row |-> row,
                                                              email |-> d.email])])

\* StudentService.bulk_import_students
BulkImportStudents(items, validate_only) ==
    LET r == ImportLoop(items, 1, validate_only, students, nextId, now,
                        [imported |-> 0, failed |-> 0, errors |-> <<>>])
    IN /\ r.nid <= MaxStudents + 1
       /\ students' = r.store
       /\ nextId' = r.nid
       /\ last' = [Report("bulk_import_students", "v1", 0, "ok")
                     EXCEPT !.bulk = [students |-> items,
                                      validate_only |-> validate_only,
                                      success |-> r.acc.failed = 0,
                                      imported |-> r.acc.imported,
                                      failed |-> r.acc.failed,
                                      errors |-> r.acc.errors]]
       /\ UNCHANGED <<timeline, now, nextEvent, tasks, reminders, nextItem, calls, api_key, posted>>

(***************************************************************************)
(* Student Directory: delete, one store call at a time.  A store call may  *)
(* fail (fault), which ends the call with an exception.                    *)
(***************************************************************************)
\* the call of process p ends and reports
Finish(p, report) ==
    /\ calls' = [calls EXCEPT ![p] = Idle]
    /\ last' = report

\* a delete that removes the student document before the cascade is over
CascadeDoneEarly(c) == TRUE

\* delete_student: the loop over the streamed timeline documents is over
CascadeDone(c) == c.pending = {}

\* delete_student: timeline_ref.stream()
DeleteStudentCall(p, id) ==
    /\ calls[p] = Idle
    /\ calls' = [calls EXCEPT ![p] =
          [Idle EXCEPT !.op = "delete_student", !.pc = "cascade", !.sid = id,
                       !.pending = {e.id : e \in timeline[id]}]]
    /\ UNCHANGED <<students, timeline, now, nextId, nextEvent, last, tasks, reminders,
                   nextItem, api_key, posted>>

\* delete_student: doc.reference.delete() of one streamed document
CascadeStep(p, fault) ==
    /\ calls[p].op = "delete_student" /\ calls[p].pc = "cascade"
    /\ \E eid \in calls[p].pending :
          IF fault
          THEN /\ Finish(p, Report("delete_student", "v2", calls[p].sid, "Exception"))
               /\ UNCHANGED timeline
          ELSE /\ timeline' = [timeline EXCEPT ![calls[p].sid] = {e \in @ : e.id # eid}]
               /\ calls' = [calls EXCEPT ![p].pending = @ \ {eid},
                                          ![p].found = @ \cup {eid}]
               /\ UNCHANGED last
    /\ UNCHANGED <<students, now, nextId, nextEvent, tasks, reminders, nextItem,
                   api_key, posted>>

\* delete_student: doc_ref.get() and the existence test
ExistsStep(p) ==
    /\ calls[p].op = "delete_student" /\ calls[p].pc = "cascade"
    /\ CascadeDone(calls[p])
    /\ IF students[calls[p].sid].exists
       THEN /\ calls' = [calls EXCEPT ![p].pc = "delete"]
            /\ UNCHANGED last
       ELSE Finish(p, [Report("delete_student", "v2", calls[p].sid, "False")
                         EXCEPT !.count = Cardinality(calls[p].found)])
    /\ UNCHANGED <<students, timeline, now, nextId, nextEvent, tasks, reminders,
                   nextItem, api_key, posted>>

\* delete_student: doc_ref.delete()
RemoveStep(p, fault) ==
    /\ calls[p].op = "delete_student" /\ calls[p].pc = "delete"
    /\ IF fault
       THEN /\ Finish(p, Report("delete_student", "v2", calls[p].sid, "Exception"))
            /\ UNCHANGED students
       ELSE /\ students' = [students EXCEPT ![calls[p].sid] = NoDoc]
            /\ Finish(p, [Report("delete_student", "v2", calls[p].sid, "True")
                            EXCEPT !.count = Cardinality(calls[p].found)])
    /\ UNCHANGED <<timeline, now, nextId, nextEvent, tasks, reminders, nextItem,
                   api_key, posted>>

(***************************************************************************)
(* Student Directory: create (second generation), one store call at a      *)
(* time: the existence query, then the add.                                *)
(***************************************************************************)
\* create_student: the existence query and the test of its result
CreateQueryStep(p, d) ==
    /\ calls[p] = Idle
    /\ IF WhereEmail(students, d.email) # {}
       THEN Finish(p, [Report("create_student", "v2", 0, "ValueError")
                         EXCEPT !.create = d])
       ELSE /\ calls' = [calls EXCEPT ![p] =
                  [Idle EXCEPT !.op = "create_student", !.pc = "add", !.create = d]]
            /\ UNCHANGED last
    /\ UNCHANGED <<students, timeline, now, nextId, nextEvent, tasks, reminders,
                   nextItem, api_key, posted>>

\* create_student: collection.add(firestore_data) and the returned student
CreateAddStep(p) ==
    /\ calls[p].op = "create_student" /\ calls[p].pc = "add"
    /\ nextId <= MaxStudents
    /\ LET d == calls[p].create
           data == V2CreateData(d, now)
           r == V2DocToStudent(nextId, data, now)
       IN /\ students' = [students EXCEPT ![nextId] = Doc(data)]
          /\ nextId' = nextId + 1
          /\ Finish(p, [Report("create_student", "v2", nextId,
                                IF r.ok THEN "ok" ELSE "Exception")
                          EXCEPT !.create = d, !.student = r.student])
    /\ UNCHANGED <<timeline, now, nextEvent, tasks, reminders, nextItem, api_key, posted>>

(***************************************************************************)
(* Student Directory: the three updates (second generation), one store     *)
(* call at a time.                                                         *)
(***************************************************************************)
Updates == {"update_student", "update_student_last_active",
            "update_student_checkboxes"}

\* a write that creates the document when it is missing, as
\* DocumentReference.set(data, merge=True) does
DocumentSetMerge(store, id, upd) ==
    [ok |-> TRUE, store |-> [store EXCEPT ![id] = Doc(Merge(store[id].data, upd))]]

\* DocumentReference.update(data): NotFound and no write for a missing
\* document
DocumentUpdate(store, id, upd) ==
    IF ~store[id].exists THEN [ok |-> FALSE, store |-> store]
    ELSE [ok |-> TRUE, store |-> [store EXCEPT ![id] = Doc(Merge(store[id].data, upd))]]

\* update_student: doc_ref.get(), the existence test and update_data
UpdateGetStep(p, id, patch) ==
    /\ calls[p] = Idle
    /\ IF ~students[id].exists
       THEN Finish(p, [Report("update_student", "v2", id, "None") EXCEPT !.dict = patch])
       ELSE /\ calls' = [calls EXCEPT ![p] =
                  [Idle EXCEPT !.op = "update_student", !.sid = id,
                               !.upd = V2UpdateData(patch),
                               !.pc = IF Keys(V2UpdateData(patch)) = {}
                                      THEN "read" ELSE "update"]]
            /\ UNCHANGED last
    /\ UNCHANGED <<students, timeline, now, nextId, nextEvent, tasks, reminders,
                   nextItem, api_key, posted>>

\* update_student_last_active up to its first store call
LastActiveCall(p, id) ==
    /\ calls[p] = Idle
    /\ calls' = [calls EXCEPT ![p] =
          [Idle EXCEPT !.op = "update_student_last_active", !.sid = id,
                       !.upd = Dict([last_active |-> Value(now)]), !.pc = "update"]]
    /\ UNCHANGED <<students, timeline, now, nextId, nextEvent, last, tasks, reminders,
                   nextItem, api_key, posted>>

\* update_student_checkboxes up to its first store call
CheckboxCall(p, id, box) ==
    /\ calls[p] = Idle
    /\ calls' = [calls EXCEPT ![p] =
          [Idle EXCEPT !.op = "update_student_checkboxes", !.sid = id,
                       !.upd = CheckboxData(box), !.pc = "update"]]
    /\ UNCHANGED <<students, timeline, now, nextId, nextEvent, last, tasks, reminders,
                   nextItem, api_key, posted>>

\* doc_ref.update(update_data) of the three methods
UpdateWriteStep(p) ==
    /\ calls[p].op \in Updates /\ calls[p].pc = "update"
    /\ LET w == DocumentUpdate(students, calls[p].sid, calls[p].upd)
       IN /\ students' = w.store
          /\ IF w.ok
             THEN /\ calls' = [calls EXCEPT ![p].pc = "read"]
                  /\ UNCHANGED last
             ELSE Finish(p, Report(calls[p].op, "v2", calls[p].sid, "Exception"))
    /\ UNCHANGED <<timeline, now, nextId, nextEvent, tasks, reminders, nextItem,
                   api_key, posted>>

\* the read that follows the write: get_student in update_student,
\* student_ref.get() and _doc_to_student in the other two
UpdateReadStep(p) ==
    /\ calls[p].op \in Updates /\ calls[p].pc = "read"
    /\ LET c == calls[p]
           g == V2GetStudent(students, c.sid, now)
           r == V2DocToStudent(c.sid, students[c.sid].data, now)
       IN IF c.op = "update_student"
          THEN Finish(p, [Report(c.op, "v2", c.sid, g.outcome) EXCEPT !.student = g.student])
          ELSE IF ~students[c.sid].exists
          THEN Finish(p, Report(c.op, "v2", c.sid, "Exception"))
          ELSE Finish(p, [Report(c.op, "v2", c.sid, IF r.ok THEN "ok" ELSE "Exception")
                            EXCEPT !.student = r.student])
    /\ UNCHANGED <<students, timeline, now, nextId, nextEvent, tasks, reminders,
                   nextItem, api_key, posted>>

(***************************************************************************)
(* Timeline Store: the aggregate reads, one store call at a time: the      *)
(* stream of the student documents, then one timeline query per student.   *)
(***************************************************************************)
Aggregates == {"get_all_communications", "get_all_interactions"}
AggregateType(op) ==
    IF op = "get_all_communications" THEN "communication" ELSE "interaction"

\* the stream of the students collection: students_map and student_ids
AggregateCall(p, op) ==
    /\ calls[p] = Idle
    /\ calls' = [calls EXCEPT ![p] =
          [Idle EXCEPT !.op = op, !.pc = "scan", !.seen = students,
                       !.ids = StreamStudents(DocIds(students))]]
    /\ UNCHANGED <<students, timeline, now, nextId, nextEvent, last, tasks, reminders,
                   nextItem, api_key, posted>>

\* a scan that finds no event under any student
ScanEventsOfNone(seen, tl, sid, type) == {}

\* the events of one type found now in the timeline of sid, joined with the
\* name and email the stream of the students gave
ScanEvents(seen, tl, sid, type) ==
    { [e EXCEPT !.student_name = DocGetDefault(seen[sid].data, "name", "Unknown"),
                !.student_email = DocGetDefault(seen[sid].data, "email", "Unknown")]
      : e \in {x \in TimelineOf(tl, sid) : x.type = type} }

\* the timeline query of the next student; when it fails,
\* get_all_communications goes on to the next student and
\* get_all_interactions returns the empty list
ScanStep(p, fault) ==
    /\ calls[p].op \in Aggregates /\ calls[p].pc = "scan"
    /\ calls[p].ids # <<>>
    /\ LET c == calls[p]
           sid == Head(c.ids)
       IN IF ~fault
          THEN /\ calls' = [calls EXCEPT ![p].ids = Tail(c.ids),
                     ![p].found = @ \cup ScanEvents(c.seen, timeline, sid, AggregateType(c.op))]
               /\ UNCHANGED last
          ELSE IF c.op = "get_all_communications"
          THEN /\ calls' = [calls EXCEPT ![p].ids = Tail(c.ids), ![p].fault = TRUE]
               /\ UNCHANGED last
          ELSE Finish(p, [Report(c.op, "v2", 0, "ok") EXCEPT !.fault = TRUE])
    /\ UNCHANGED <<students, timeline, now, nextId, nextEvent, tasks, reminders,
                   nextItem, api_key, posted>>

\* the sort of the collected events and the return
ScanReturn(p) ==
    /\ calls[p].op \in Aggregates /\ calls[p].pc = "scan"
    /\ calls[p].ids = <<>>
    /\ Finish(p, [Report(calls[p].op, "v2", 0, "ok")
                    EXCEPT !.events = SortCreatedDesc(calls[p].found),
                           !.count = Cardinality(calls[p].found),
                           !.fault = calls[p].fault])
    /\ UNCHANGED <<students, timeline, now, nextId, nextEvent, tasks, reminders,
                   nextItem, api_key, posted>>

\* no call is in flight
AllIdle == \A p \in Procs : calls[p] = Idle

\* no call in flight is about student id
NoCallOn(id) == \A p \in Procs : calls[p].op = "idle" \/ calls[p].sid # id

(***************************************************************************)
(* The list reads of the second generation with a store that may fail: the *)
(* except branch of each of them prints the error and returns [].          *)
(***************************************************************************)
\* a list read that lets the failure of its store call out
FailedReadRaising(op, sid, filter) ==
    /\ last' = [Report(op, "v2", sid, "Exception") EXCEPT !.filter = filter, !.fault = TRUE]
    /\ UNCHANGED <<students, timeline, now, nextId, nextEvent, tasks, reminders,
                   nextItem, calls, api_key, posted>>

\* a list read whose store call failed
FailedRead(op, sid, filter) ==
    /\ last' = [Report(op, "v2", sid, "ok") EXCEPT !.filter = filter, !.fault = TRUE]
    /\ UNCHANGED <<students, timeline, now, nextId, nextEvent, tasks, reminders,
                   nextItem, calls, api_key, posted>>

\* a list read of students, tasks or reminders that fetched its documents
ListedRead(op, size) ==
    /\ last' = [Report(op, "v2", 0, "ok") EXCEPT !.count = size]
    /\ UNCHANGED <<students, timeline, now, nextId, nextEvent, tasks, reminders,
                   nextItem, calls, api_key, posted>>

\* StudentV2Service.get_students
GetStudents(fault) ==
    IF fault THEN FailedRead("get_students", 0, "")
    ELSE ListedRead("get_students", Len(GetStudentsResult(students, now)))

\* StudentV2Service.get_all_reminders
GetAllReminders(fault) ==
    IF fault THEN FailedRead("get_all_reminders", 0, "")
    ELSE ListedRead("get_all_reminders", Cardinality(GetAllRemindersResult(reminders)))

\* StudentV2Service.get_all_tasks: [] when _doc_to_task raises on a document
GetAllTasksResult(ts) == IF \A t \in ts : DocToTask(t.data) THEN ts ELSE {}

GetAllTasks(fault) ==
    IF fault THEN FailedRead("get_all_tasks", 0, "")
    ELSE ListedRead("get_all_tasks", Cardinality(GetAllTasksResult(tasks)))

\* get_timeline_events and get_student_interactions / _communications /
\* _notes of one student
TimelineRead(op, sid, fault) ==
    IF fault THEN FailedRead(op, sid, "")
    ELSE CASE op = "get_timeline_events" -> GetTimelineEvents(sid, "")
           [] op = "get_student_interactions" -> GetStudentInteractions(sid)
           [] op = "get_student_communications" -> GetStudentCommunications(sid)
           [] OTHER -> GetStudentNotes(sid)

(***************************************************************************)
(* Student Directory: analytics (first generation).                        *)
(***************************************************************************)
WeekDays == 7
MonthDays == 30

\* StudentService.get_students(limit = 10000): raises when normalizing a
\* document raises
V1GetStudentsResult(store) ==
    LET ids == StreamStudents(DocIds(store))
    IN [ok |-> \A i \in DocIds(store) : V1DocToStudent(i, store[i].data).ok,
        list |-> [k \in 1..Len(ids) |-> V1DocToStudent(ids[k], store[ids[k]].data).student]]

\* timedelta.days of the time from instant a to instant t
WholeDays(t, a) == (t - a) \div HoursPerDay

\* StudentService.get_analytics: the overview, engagement and trend counts
Analytics(sts, days, t) ==
    LET cutoff_date == t - days * HoursPerDay
        Recent(st) == st.created_at.v >= cutoff_date
        recent_students == SelectSeq(sts, Recent)
        NotContacted(st) ==
            \/ st.last_contacted_at.p # "val"
            \/ WholeDays(t, st.last_contacted_at.v) > NotContactedDays
        ThisWeek(st) == st.created_at.v >= t - WeekDays * HoursPerDay
        ThisMonth(st) == st.created_at.v >= t - MonthDays * HoursPerDay
    IN [date_range_days |-> days,
        totalStudents |-> Len(sts),
        newStudents |-> Len(recent_students),
        studentsNotContacted7Days |-> Len(SelectSeq(sts, NotContacted)),
        newStudentsThisWeek |-> Len(SelectSeq(recent_students, ThisWeek)),
        newStudentsThisMonth |-> Len(SelectSeq(recent_students, ThisMonth))]

GetAnalytics(days) ==
    /\ LET r == V1GetStudentsResult(students)
       IN last' = IF r.ok
                  THEN [Report("get_analytics", "v1", 0, "ok")
                          EXCEPT !.analytics = Analytics(r.list, days, now)]
                  ELSE Report("get_analytics", "v1", 0, "Exception")
    /\ UNCHANGED <<students, timeline, now, nextId, nextEvent, tasks, reminders,
                   nextItem, calls, api_key, posted>>

(***************************************************************************)
(* Email Sender.  The transport answers a request with a response (a       *)
(* status and a body), with a timeout or with another transport error; a   *)
(* body is a JSON object with an id, with a message or with neither, or    *)
(* it is not JSON.                                                         *)
(***************************************************************************)
StatusOk == 200
StatusRejected == 422

Failure(text) == [success |-> FALSE, message_id |-> Null("name"), error |-> Value(text)]

\* EmailService.send_email: email_data, sent to the fixed recipient
EmailData(req) ==
    [from |-> IF req.from_name.p = "val" /\ req.from_name.v # ""
              THEN req.from_name.v \o " <crm@x.io>" ELSE "crm@x.io",
     to |-> "sumedh.sa.jadhav@gmail.com",
     subject |-> "[TO: " \o req.to \o "] " \o req.subject]

\* a result that reports a timeout as any other failure
EmailResultTimeoutAsFailure(answer) ==
    IF answer.kind # "response" \/ answer.body = "not_json"
    THEN Failure("Failed to send email")
    ELSE IF answer.status = StatusOk
    THEN [success |-> TRUE,
          message_id |-> IF answer.body = "id" THEN Value("msg_1") ELSE Null("name"),
          error |-> Null("name")]
    ELSE Failure(IF answer.body = "message" THEN "Invalid from address" ELSE "HTTP error")

\* EmailService.send_email: the result for an answer of the transport
\* (response.json() raises on a body that is not JSON)
EmailResult(answer) ==
    IF answer.kind = "timeout" THEN Failure("Email service timeout")
    ELSE IF answer.kind # "response" \/ answer.body = "not_json"
    THEN Failure("Failed to send email")
    ELSE IF answer.status = StatusOk
    THEN [success |-> TRUE,
          message_id |-> IF answer.body = "id" THEN Value("msg_1") ELSE Null("name"),
          error |-> Null("name")]
    ELSE Failure(IF answer.body = "message" THEN "Invalid from address" ELSE "HTTP error")

\* EmailService.send_email
SendEmail(req, answer) ==
    /\ IF api_key = ""
       THEN /\ last' = [Report("send_email", "-", 0, "ok")
                          EXCEPT !.email = Failure("Email service not configured")]
            /\ UNCHANGED posted
       ELSE /\ Len(posted) < MaxPosts
            /\ posted' = Append(posted, EmailData(req))
            /\ last' = [Report("send_email", "-", 0, "ok")
                          EXCEPT !.email = EmailResult(answer), !.answer = answer]
    /\ UNCHANGED <<students, timeline, now, nextId, nextEvent, tasks, reminders,
                   nextItem, calls, api_key>>

(***************************************************************************)
(* The clock.                                                              *)
(***************************************************************************)
Tick ==
    /\ now < MaxClock
    /\ now' = now + 1
    /\ UNCHANGED <<students, timeline, nextId, nextEvent, last, tasks, reminders, nextItem, calls, api_key, posted>>

(***************************************************************************)
(* Inputs of the directory operations.                                     *)
(***************************************************************************)
Services == {"v1", "v2"}

\* StudentUpdate bodies
StudentUpdates ==
    { EmptyDict,
      Dict([status |-> Value("Applying")]),
      Dict([name |-> Value("Bo"), high_intent |-> Value(TRUE)]) }

\* bodies of PUT /api/students/{id}/checkboxes (an untyped dict)
CheckboxBodies ==
    { Dict([highIntent |-> Value(TRUE)]),
      Dict([name |-> Value("Bo")]),
      Dict([status |-> Value("Bogus")]) }

\* checkbox bodies that record a contact: 3 days, 8 days less an hour and
\* 8 days before the model's first instant
ContactBodies ==
    { Dict([lastContactedAt |-> Value(0 - 72)]),
      Dict([lastContactedAt |-> Value(0 - 191)]),
      Dict([lastContactedAt |-> Value(0 - 192)]) }

\* StudentSearchRequest bodies
SearchQueries == {"MA", "pe", "OM"}

SearchFilters ==
    { [status_filter |-> sf, country_filter |-> cf, high_intent_only |-> hi,
       needs_essay_help_only |-> eh, not_contacted_7_days |-> nc] :
        sf \in {Null("status"), Value("Exploring")},
        cf \in {Null("country"), Value("OM")},
        hi \in BOOLEAN, eh \in BOOLEAN, nc \in BOOLEAN }

\* one filter at a time, and two conjunctions
SearchFilterChoices ==
    {f \in SearchFilters :
        LET n == Cardinality({k \in {"s", "c", "h", "e", "n"} :
                     \/ k = "s" /\ f.status_filter.p = "val"
                     \/ k = "c" /\ f.country_filter.p = "val"
                     \/ k = "h" /\ f.high_intent_only
                     \/ k = "e" /\ f.needs_essay_help_only
                     \/ k = "n" /\ f.not_contacted_7_days})
        IN \/ n <= 1
           \/ n = 2 /\ f.not_contacted_7_days
                    /\ (f.status_filter.p = "val" \/ f.country_filter.p = "val")}

SearchPages ==
    { [offset |-> 0, limit |-> 20], [offset |-> 0, limit |-> 1],
      [offset |-> 1, limit |-> 1] }

SearchRequests ==
    { [query |-> q, limit |-> pg.limit, offset |-> pg.offset,
       status_filter |-> f.status_filter, country_filter |-> f.country_filter,
       high_intent_only |-> f.high_intent_only,
       needs_essay_help_only |-> f.needs_essay_help_only,
       not_contacted_7_days |-> f.not_contacted_7_days] :
        q \in SearchQueries, f \in SearchFilterChoices, pg \in SearchPages }

\* bodies of PUT /api/students/{id}/notes/{note_id} (an untyped dict)
NotePatches ==
    { [title |-> Value("New title"), content |-> Value("New text")],
      [title |-> Value("New title"), content |-> Absent("name")],
      [title |-> Null("name"), content |-> Value("New text")] }

\* InteractionCreate bodies: the follow-up flag and date
InteractionBodies ==
    { [follow_up_required |-> FALSE, follow_up_date |-> Null("created_at")],
      [follow_up_required |-> TRUE, follow_up_date |-> Value(48)],
      [follow_up_required |-> TRUE, follow_up_date |-> Value(72)] }

\* ids an event of a timeline may have
EventIds == 1..MaxEvents

\* the bodies an import request is made of: two emails, one of them shared
\* with a differently named body of StudentCreates
BulkCreates == {d \in StudentCreates : d.name # "Maria"}

\* the lists of at most n StudentCreate bodies
RECURSIVE Batches(_)
Batches(n) ==
    IF n = 0 THEN {<<>>}
    ELSE Batches(n - 1) \cup
         {Append(b, d) : b \in {c \in Batches(n - 1) : Len(c) = n - 1},
                         d \in BulkCreates}

\* StudentBulkImport.students bodies
ImportBatches == Batches(MaxBatch)

\* ids a request may name: those assigned so far and the one never assigned
KnownIds == {i \in StudentIds : i < nextId \/ i = GhostId}


(***************************************************************************)
(* The directory as a state machine.                                       *)
(***************************************************************************)
Init ==
    /\ students = [i \in StudentIds |-> NoDoc]
    /\ timeline = [i \in StudentIds |-> {}]
    /\ now = 0
    /\ nextId = 1
    /\ nextEvent = 1
    /\ last = Report("init", "-", 0, "ok")
    /\ tasks = {}
    /\ reminders = {}
    /\ nextItem = 1
    /\ calls = [p \in Procs |-> Idle]
    /\ api_key = ""
    /\ posted = <<>>

\* create, get and delete of both generations
Next ==
    \/ Tick
    \/ \E svc \in Services, d \in StudentCreates : CreateStudent(svc, d)
    \/ \E svc \in Services, id \in KnownIds : GetStudent(svc, id)
    \/ \E svc \in Services, id \in KnownIds : DeleteStudent(svc, id)

Spec == Init /\ [][Next]_vars

\* the profile mutations on students of both generations
UpdateCreates == {d \in StudentCreates : d.name = "Maria"}

NextUpdate ==
    \/ Tick
    \/ \E svc \in Services, d \in UpdateCreates : CreateStudent(svc, d)
    \/ \E svc \in Services, id \in KnownIds, patch \in StudentUpdates :
          UpdateStudent(svc, id, patch)
    \/ \E id \in KnownIds : UpdateStudentLastActive(id)
    \/ \E id \in KnownIds, box \in CheckboxBodies : UpdateStudentCheckboxes(id, box)
    \/ \E id \in KnownIds : GetStudent("v2", id)

SpecUpdate == Init /\ [][NextUpdate]_vars

\* timelines of v2 students: appends, the cascade and the reads
TimelineCreates == {d \in StudentCreates : d.name = "Maria"}
AppendTypes == {"interaction", "communication"}
Filters == {"", "interaction"}

NextTimeline ==
    \/ \E d \in TimelineCreates : CreateStudent("v2", d)
    \/ \E id \in KnownIds, type \in AppendTypes : CreateEvent(id, type)
    \/ \E svc \in Services, id \in KnownIds : DeleteStudent(svc, id)
    \/ \E id \in KnownIds, f \in Filters : GetTimelineEvents(id, f)
    \/ \E id \in KnownIds : GetStudentInteractions(id)
    \/ \E id \in KnownIds : GetStudentCommunications(id)
    \/ \E id \in KnownIds : GetStudentNotes(id)
    \/ GetAllCommunications
    \/ GetAllInteractions

SpecTimeline == Init /\ [][NextTimeline]_vars

\* search over a store both generations write to; contacts are recorded
\* through the checkbox endpoint, the one writer of lastContactedAt
NextSearch ==
    \/ \E d \in StudentCreates : CreateStudent("v1", d)
    \/ \E d \in UpdateCreates : CreateStudent("v2", d)
    \/ \E id \in KnownIds, box \in ContactBodies : UpdateStudentCheckboxes(id, box)
    \/ \E req \in SearchRequests : SearchStudents(req)

SpecSearch == Init /\ [][NextSearch]_vars

\* one student's timeline over time: appends, note updates and the list reads
ListTypes == {"interaction", "note"}
ListFilters == {"", "note"}

NextList ==
    \/ Tick
    \/ \E type \in ListTypes : CreateEvent(GhostId, type)
    \/ \E nid \in EventIds, patch \in NotePatches : UpdateStudentNote(GhostId, nid, patch)
    \/ \E f \in ListFilters : GetTimelineEvents(GhostId, f)
    \/ GetStudentNotes(GhostId)
    \/ GetStudentInteractions(GhostId)

SpecList == Init /\ [][NextList]_vars

\* interactions written and read back, with notes, note updates and
\* removals of single events in between
NextRoundTrip ==
    \/ \E body \in InteractionBodies : CreateInteraction(GhostId, body)
    \/ CreateEvent(GhostId, "note")
    \/ \E nid \in EventIds, patch \in NotePatches : UpdateStudentNote(GhostId, nid, patch)
    \/ \E nid \in EventIds : DeleteStudentNote(GhostId, nid)
    \/ GetTimelineEvents(GhostId, "interaction")
    \/ GetStudentInteractions(GhostId)

SpecRoundTrip == Init /\ [][NextRoundTrip]_vars

\* the dashboard over students of several statuses and over reminders
StatusUpdates ==
    { Dict([status |-> Value("Submitted")]), Dict([status |-> Value("Applying")]) }
StatusBodies == { Dict([status |-> Value("Bogus")]) }
ReminderDates == {0 - 1, 0, 1}

NextDashboard ==
    \/ \E d \in StudentCreates : CreateStudent("v2", d)
    \/ \E id \in KnownIds, patch \in StatusUpdates : UpdateStudent("v2", id, patch)
    \/ \E id \in KnownIds, box \in StatusBodies : UpdateStudentCheckboxes(id, box)
    \/ \E date \in ReminderDates : CreateStandaloneReminder(date)
    \/ \E date \in ReminderDates : StoreReminder(date)
    \/ GetDashboardStats

SpecDashboard == Init /\ [][NextDashboard]_vars

\* the normalizer applied to stored documents of every shape: a document
\* with a name, an email and a country, whose status and one pair of keys
\* (current and legacy) take every kind of entry
NormalizedFields ==
    { [cur |-> "created_at", leg |-> "createdAt"],
      [cur |-> "last_active", leg |-> "lastActive"],
      [cur |-> "last_contacted_at", leg |-> "lastContactedAt"],
      [cur |-> "high_intent", leg |-> "highIntent"],
      [cur |-> "needs_essay_help", leg |-> "needsEssayHelp"],
      [cur |-> "additional_data", leg |-> "additionalData"] }

CurrentEntries(k) ==
    {Absent(k), Null(k)} \cup
    IF k \in BoolKeys THEN {Value(FALSE), Value(TRUE)}
    ELSE IF k \in MapKeys THEN {Value("{}"), Value("{essay}")}
    ELSE {Value(0 - 48)}

LegacyEntries(k) ==
    {Absent(k), Null(k)} \cup
    IF k \in BoolKeys THEN {Value(TRUE)}
    ELSE IF k \in MapKeys THEN {Value("{visa}")}
    ELSE {Value(0 - 72)}

StatusEntries ==
    {Absent("status"), Null("status"), Value(""), Value("Exploring"),
     Value("Submitted"), Value("Bogus")}

StoredDocs ==
    UNION { { [Dict([name |-> Value("Maria"), email |-> Value("ma@x.io"),
                     country |-> Value("Oman")])
                 EXCEPT ![f.cur] = c, ![f.leg] = l, !["status"] = x] :
                c \in CurrentEntries(f.cur), l \in LegacyEntries(f.leg),
                x \in StatusEntries } : f \in NormalizedFields }

\* StudentV2Service._doc_to_student on the document of a student
NormalizeStudent(id) ==
    /\ students[id].exists
    /\ LET r == V2DocToStudent(id, students[id].data, now)
       IN last' = [Report("_doc_to_student", "v2", id, IF r.ok THEN "ok" ELSE "Exception")
                     EXCEPT !.student = r.student]
    /\ UNCHANGED <<students, timeline, now, nextId, nextEvent, tasks, reminders, nextItem, calls, api_key, posted>>

InitNormalize ==
    /\ \E d \in StoredDocs :
          students = [i \in StudentIds |-> IF i = 1 THEN Doc(d) ELSE NoDoc]
    /\ timeline = [i \in StudentIds |-> {}]
    /\ now \in 0..MaxClock
    /\ nextId = 2
    /\ nextEvent = 1
    /\ tasks = {}
    /\ reminders = {}
    /\ nextItem = 1
    /\ calls = [p \in Procs |-> Idle]
    /\ api_key = ""
    /\ posted = <<>>
    /\ last = Report("init", "-", 0, "ok")

NextNormalize == \E id \in AssignedIds : NormalizeStudent(id)

SpecNormalize == InitNormalize /\ [][NextNormalize]_vars

\* tasks and timeline events under every operation that changes them
TaskCreates ==
    { [title |-> "Essay", status |-> "pending", due_date |-> NullText,
       student_id |-> NullText, student_name |-> NullText],
      [title |-> "Visa", status |-> "pending", due_date |-> Value("2025-01-01"),
       student_id |-> Value("1"), student_name |-> Value("Maria")] }

TaskUpdates ==
    { <<[key |-> "status", value |-> Value("done")]>>,
      <<[key |-> "studentId", value |-> Value("2")],
        [key |-> "studentName", value |-> Value("Bo")]>>,
      <<[key |-> "student_id", value |-> Value("standalone")]>> }

ItemIds == 1..MaxItems
OwnedTypes == {"note"}
\* the patches that carry a title and a content
FullPatches == {patch \in NotePatches : patch.title.p = "val" /\ patch.content.p = "val"}
Owners == {1, GhostId}

NextTasks ==
    \/ \E body \in TaskCreates : CreateStandaloneTask(body)
    \/ \E tid \in ItemIds, items \in TaskUpdates : UpdateTask(tid, items)
    \/ \E tid \in ItemIds : DeleteTask(tid)
    \/ \E id \in Owners, type \in OwnedTypes : CreateEvent(id, type)
    \/ \E id \in Owners, nid \in EventIds, patch \in FullPatches :
          UpdateStudentNote(id, nid, patch)
    \/ \E id \in Owners, nid \in EventIds : DeleteStudentNote(id, nid)

SpecTasks == Init /\ [][NextTasks]_vars

\* the email sender, with and without an API key, over every answer
EmailRequests ==
    { [to |-> t, subject |-> "Hello", from_name |-> f] :
        t \in {"ma@x.io", "bo@x.io"}, f \in {Null("name"), Value("Ana")} }

TransportAnswers ==
    { [kind |-> "response", status |-> x, body |-> b] :
        x \in {StatusOk, StatusRejected}, b \in {"id", "message", "empty", "not_json"} }
    \cup { [kind |-> k, status |-> 0, body |-> ""] : k \in {"timeout", "error"} }

InitEmail ==
    /\ students = [i \in StudentIds |-> NoDoc]
    /\ timeline = [i \in StudentIds |-> {}]
    /\ now = 0
    /\ nextId = 1
    /\ nextEvent = 1
    /\ last = Report("init", "-", 0, "ok")
    /\ tasks = {}
    /\ reminders = {}
    /\ nextItem = 1
    /\ calls = [p \in Procs |-> Idle]
    /\ api_key \in {"", "re_key"}
    /\ posted = <<>>

NextEmail == \E req \in EmailRequests, answer \in TransportAnswers : SendEmail(req, answer)

SpecEmail == InitEmail /\ [][NextEmail]_vars

\* deletes that may fail part-way, with appends only while no delete of the
\* student is in flight
CascadeCreates == {d \in StudentCreates : d.name = "Maria"}

NextCascade ==
    \/ \E d \in CascadeCreates : CreateStudent("v2", d)
    \/ \E id \in AssignedIds : NoCallOn(id) /\ students[id].exists /\ CreateEvent(id, "note")
    \/ \E p \in Procs, id \in AssignedIds : DeleteStudentCall(p, id)
    \/ \E p \in Procs, fault \in BOOLEAN : CascadeStep(p, fault)
    \/ \E p \in Procs : ExistsStep(p)
    \/ \E p \in Procs, fault \in BOOLEAN : RemoveStep(p, fault)

SpecCascade == Init /\ [][NextCascade]_vars

\* deletes of one process with appends of the other at any point between
\* the store calls of the delete
NextOrphan ==
    \/ \E d \in CascadeCreates : CreateStudent("v2", d)
    \/ \E id \in AssignedIds : CreateEvent(id, "interaction")
    \/ \E id \in AssignedIds : DeleteStudentCall("p", id)
    \/ CascadeStep("p", FALSE)
    \/ ExistsStep("p")
    \/ RemoveStep("p", FALSE)

SpecOrphan == Init /\ [][NextOrphan]_vars

\* updates of one process and deletes of the other, interleaved at the
\* store calls; students and events are added while no call is in flight
ReviveBoxes == {Dict([highIntent |-> Value(TRUE)])}
RevivePatches == {EmptyDict, Dict([status |-> Value("Applying")])}

NextRevive ==
    \/ \E d \in CascadeCreates : AllIdle /\ CreateStudent("v2", d)
    \/ \E id \in AssignedIds :
          AllIdle /\ students[id].exists /\ timeline[id] = {} /\ CreateEvent(id, "note")
    \/ \E id \in AssignedIds, patch \in RevivePatches : UpdateGetStep("p", id, patch)
    \/ \E id \in AssignedIds : LastActiveCall("p", id)
    \/ \E id \in AssignedIds, box \in ReviveBoxes : CheckboxCall("p", id, box)
    \/ UpdateWriteStep("p")
    \/ UpdateReadStep("p")
    \/ \E id \in AssignedIds : DeleteStudentCall("q", id)
    \/ CascadeStep("q", FALSE)
    \/ ExistsStep("q")
    \/ RemoveStep("q", FALSE)

SpecRevive == Init /\ [][NextRevive]_vars

\* notes and interactions of stored students, and updates of single events
NoteTypes == {"note", "interaction"}

NextNote ==
    \/ \E d \in CascadeCreates : CreateStudent("v2", d)
    \/ \E id \in AssignedIds, type \in NoteTypes :
          students[id].exists /\ CreateEvent(id, type)
    \/ \E id \in AssignedIds, nid \in EventIds, patch \in NotePatches :
          students[id].exists /\ UpdateStudentNote(id, nid, patch)

SpecNote == Init /\ [][NextNote]_vars

\* create requests of two processes, interleaved at the store calls
NextRace ==
    \/ Tick
    \/ \E p \in Procs, d \in StudentCreates : CreateQueryStep(p, d)
    \/ \E p \in Procs : CreateAddStep(p)

SpecRace == Init /\ [][NextRace]_vars

\* aggregate reads of one process during which the other begins to delete
\* students; students and events are added while no call is in flight
ScanTypes == {"communication", "interaction"}
ScanCreates == {d \in StudentCreates : d.name # "Bo"}

NextScan ==
    \/ \E d \in ScanCreates : AllIdle /\ CreateStudent("v2", d)
    \/ \E id \in AssignedIds, type \in ScanTypes :
          AllIdle /\ students[id].exists /\ CreateEvent(id, type)
    \/ \E op \in Aggregates : AggregateCall("p", op)
    \/ ScanStep("p", FALSE)
    \/ ScanReturn("p")
    \/ \E id \in AssignedIds :
          calls["p"].op \in Aggregates /\ DeleteStudentCall("q", id)
    \/ CascadeStep("q", FALSE)
    \/ ExistsStep("q")
    \/ RemoveStep("q", FALSE)

SpecScan == Init /\ [][NextScan]_vars

\* the list reads over a store that may fail and over documents that may
\* not normalize; the store is written while no aggregate read is in flight.
\* A run fills either the tasks and reminders collections (one document
\* each) or the students collection (one event a student), which no list
\* read looks at together.
TimelineReads ==
    {"get_timeline_events", "get_student_interactions",
     "get_student_communications", "get_student_notes"}
ListReads ==
    TimelineReads \cup Aggregates \cup {"get_students", "get_all_reminders", "get_all_tasks"}
ReadTypes == {"communication"}
NoStudentYet == AllIdle /\ nextId = 1
NoItemYet == AllIdle /\ nextItem = 1
BrokenPatches == {patch \in NotePatches : patch.content.p = "absent"}
BrokenTaskUpdates == { <<[key |-> "title", value |-> NullText]>> }
ReadTaskCreates == {body \in TaskCreates : body.title = "Essay"}

NextReads ==
    \/ \E d \in ScanCreates : NoItemYet /\ CreateStudent("v2", d)
    \/ \E id \in AssignedIds, box \in StatusBodies :
          AllIdle /\ students[id].exists /\ UpdateStudentCheckboxes(id, box)
    \/ \E id \in AssignedIds, type \in ReadTypes :
          AllIdle /\ students[id].exists /\ timeline[id] = {} /\ CreateEvent(id, type)
    \/ \E id \in AssignedIds, nid \in EventIds, patch \in BrokenPatches :
          AllIdle /\ UpdateStudentNote(id, nid, patch)
    \/ NoStudentYet /\ reminders = {} /\ StoreReminder(0)
    \/ \E body \in ReadTaskCreates : NoStudentYet /\ tasks = {} /\ CreateStandaloneTask(body)
    \/ \E tid \in ItemIds, items \in BrokenTaskUpdates :
          NoStudentYet /\ UpdateTask(tid, items)
    \/ \E fault \in BOOLEAN : AllIdle /\ GetStudents(fault)
    \/ \E fault \in BOOLEAN : AllIdle /\ GetAllReminders(fault)
    \/ \E fault \in BOOLEAN : AllIdle /\ GetAllTasks(fault)
    \/ \E op \in TimelineReads, id \in AssignedIds, fault \in BOOLEAN :
          AllIdle /\ TimelineRead(op, id, fault)
    \/ \E op \in Aggregates : AggregateCall("p", op)
    \/ \E fault \in BOOLEAN : ScanStep("p", fault)
    \/ ScanReturn("p")

SpecReads == Init /\ [][NextReads]_vars

\* analytics over students created and contacted some days ago
AgesInDays == {0, 3, 7, 20, 40}
ContactAges == {6, 7, 8}
DateRanges == {1, 7, 30, 365}

\* a first-generation document created age days ago and last contacted as
\* the entry tells
AgedDoc(d, age, contacted) ==
    Doc([V1CreateData(d, 0 - age * HoursPerDay) EXCEPT !["lastContactedAt"] = contacted])

InitAnalytics ==
    /\ \E a1 \in AgesInDays, a2 \in AgesInDays :
       \E c1 \in {Null("lastContactedAt")} \cup {Value(0 - c * HoursPerDay) : c \in ContactAges} :
       \E c2 \in {Null("lastContactedAt")} \cup {Value(0 - c * HoursPerDay) : c \in ContactAges} :
       \E d1 \in CascadeCreates, d2 \in {d \in StudentCreates : d.name = "Omar"} :
          students = [i \in StudentIds |->
                        IF i = 1 THEN AgedDoc(d1, a1, c1)
                        ELSE IF i = 2 THEN AgedDoc(d2, a2, c2) ELSE NoDoc]
    /\ timeline = [i \in StudentIds |-> {}]
    /\ now = 0
    /\ nextId = 3
    /\ nextEvent = 1
    /\ last = Report("init", "-", 0, "ok")
    /\ tasks = {}
    /\ reminders = {}
    /\ nextItem = 1
    /\ calls = [p \in Procs |-> Idle]
    /\ api_key = ""
    /\ posted = <<>>

NextAnalytics == \E days \in DateRanges : GetAnalytics(days)

SpecAnalytics == InitAnalytics /\ [][NextAnalytics]_vars

\* bulk import into a store the first generation fills and empties
NextBulk ==
    \/ \E d \in StudentCreates : CreateStudent("v1", d)
    \/ \E id \in KnownIds : DeleteStudent("v1", id)
    \/ \E items \in ImportBatches, vo \in BOOLEAN : BulkImportStudents(items, vo)

SpecBulk == Init /\ [][NextBulk]_vars

(***************************************************************************)
(* Properties.  A step of an operation is recognised by the report it      *)
(* leaves in last; the clock stands still during an operation.             *)
(***************************************************************************)
Range(q) == {q[i] : i \in 1..Len(q)}

\* the step is one of operation op (Tick alone moves the clock)
StepOf(op) == last'.op = op /\ now' = now

\* C1: create with an email some stored student has exactly fails with the
\* duplicate-email error and leaves the students collection as it was;
\* otherwise it adds exactly one student document, under a fresh id
C1_CreateEmailUnique ==
    [][StepOf("create_student") =>
        IF \E i \in DocIds(students) :
              students[i].data["email"] = Value(last'.create.email)
        THEN /\ last'.outcome = "ValueError"
             /\ students' = students
        ELSE /\ last'.outcome = "ok"
             /\ last'.sid \notin DocIds(students)
             /\ DocIds(students') = DocIds(students) \cup {last'.sid}
             /\ students'[last'.sid].data["email"] = Value(last'.create.email)
             /\ \A i \in DocIds(students) : students'[i] = students[i]]_vars

\* a create was rejected for its email while a student held that email
C1_Witness ==
    /\ last.op = "create_student" /\ last.outcome = "ValueError"
    /\ \E i \in DocIds(students) : students[i].data["email"] = Value(last.create.email)
    /\ Cardinality(DocIds(students)) = 1

\* the four per-student reads of student sid, on the timelines tl
PerStudentReads(tl, sid) ==
    { GetTimelineEventsResult(tl, sid, ""),
      GetStudentEventsResult(tl, sid, "interaction"),
      GetStudentEventsResult(tl, sid, "communication"),
      GetStudentEventsResult(tl, sid, "note") } \cup
    { GetTimelineEventsResult(tl, sid, f) : f \in TimelineEventType }

\* the student ids the two aggregate reads return events of
AggregateOwners(store, tl) ==
    { e.student_id : e \in Range(GetAllCommunicationsResult(store, tl))
                           \cup Range(GetAllInteractionsResult(store, tl)) }

V2Deleted(r) == r.op = "delete_student" /\ r.svc = "v2" /\ r.outcome = "True"

\* C2 as stated: once delete_student(S) has returned true, every later read
\* of S's timeline returns an empty list, whatever operation came in between
C2_EveryLaterReadEmpty ==
    [][V2Deleted(last) =>
        /\ PerStudentReads(timeline', last.sid) = {<<>>}
        /\ last.sid \notin AggregateOwners(students', timeline')]_vars

\* C2, amended: when delete_student(S) returns true S's timeline holds no
\* event and every per-student read of S returns an empty list; it stays so
\* until an event is appended to S's timeline; and the aggregate reads never
\* return an event of a student id that has no student document
C2_DeleteEmptiesTimeline ==
    /\ [](V2Deleted(last) =>
            /\ timeline[last.sid] = {}
            /\ PerStudentReads(timeline, last.sid) = {<<>>})
    /\ [](AggregateOwners(students, timeline) \subseteq DocIds(students))
    /\ [][\A sid \in StudentIds :
            (timeline[sid] = {} /\ timeline'[sid] # {}) =>
                last'.sid = sid /\ nextEvent' = nextEvent + 1]_vars

\* delete_student returned true for the one student ever created and took
\* the second event ever appended with it: the first event, in the timeline
\* of an id that names no student, is the only one left
C2_Witness ==
    /\ V2Deleted(last)
    /\ nextId = 2 /\ nextEvent = 3
    /\ \E e \in timeline[GhostId] : e.id = 1
    /\ Cardinality(UNION {timeline[sid] : sid \in StudentIds}) = 1

\* C7 as stated: delete of an id that has no student document returns false
\* and changes no document of the students collection or of any timeline
C7_DeleteMissingIsNoOp ==
    [][(StepOf("delete_student") /\ ~students[last'.sid].exists) =>
        /\ last'.outcome = "False"
        /\ students' = students
        /\ timeline' = timeline]_vars

\* the part of C7 the code keeps: false is returned and the students
\* collection is untouched
C7_DeleteMissingReturnsFalse ==
    [][(StepOf("delete_student") /\ ~students[last'.sid].exists) =>
        /\ last'.outcome = "False"
        /\ students' = students]_vars

CoreIdentityKeys == {"name", "email", "country", "created_at", "createdAt"}

\* the students the second generation created
V2Students(store) == {i \in DocIds(store) : store[i].data["created_at"].p = "val"}

\* C3 as stated: no operation of the v2 service changes the stored name,
\* email, country or created_at of a v2 student that stays in the store
C3_CoreIdentityImmutable ==
    [][(last'.svc = "v2" /\ now' = now) =>
        \A i \in V2Students(students) \cap DocIds(students') :
            \A k \in CoreIdentityKeys :
                students'[i].data[k] = students[i].data[k]]_vars

\* the part of C3 the code keeps: update_student and
\* update_student_last_active leave the core identity fields alone
C3_UpdateKeepsCoreIdentity ==
    [][(StepOf("update_student") \/ StepOf("update_student_last_active"))
         /\ last'.svc = "v2" =>
        \A i \in DocIds(students) : \A k \in CoreIdentityKeys :
            students'[i].data[k] = students[i].data[k]]_vars

\* the stored keys an update of generation svc writes for the fields its
\* StudentUpdate names and the body supplies
SuppliedKeys(svc, patch) ==
    IF svc = "v1"
    THEN {V1Key(f) : f \in {g \in V1UpdateFields : patch[g].p = "val"}}
    ELSE {f \in V2UpdateFields : patch[f].p = "val"}

\* the value the body supplies for stored key k
SuppliedValue(svc, patch, k) ==
    IF svc = "v1" THEN patch[CHOOSE f \in V1UpdateFields : V1Key(f) = k] ELSE patch[k]

LastActiveKey(svc) == IF svc = "v1" THEN "lastActive" ELSE "last_active"

\* C4: update_student changes, in the document of the student it names,
\* only the stored fields the body supplies and last_active; a supplied
\* field takes the supplied value, every other stored field, every other
\* student document and every timeline keep their value
C4_UpdateTouchesOnlySupplied ==
    [][StepOf("update_student") =>
        LET id == last'.sid
            patch == last'.dict
            svc == last'.svc
        IN /\ DocIds(students') = DocIds(students)
           /\ timeline' = timeline
           /\ \A i \in StudentIds \ {id} : students'[i] = students[i]
           /\ students[id].exists =>
                \A k \in AllKeys :
                    IF k \in SuppliedKeys(svc, patch)
                    THEN students'[id].data[k] = SuppliedValue(svc, patch, k)
                    ELSE \/ students'[id].data[k] = students[id].data[k]
                         \/ k = LastActiveKey(svc)]_vars

\* an update that supplied status only reached a student whose other
\* fields hold values
C4_Witness ==
    /\ last.op = "update_student" /\ last.outcome = "ok"
    /\ Keys(last.dict) = {"status"}
    /\ students[last.sid].data["status"] = last.dict["status"]
    /\ students[last.sid].data["name"] = Value("Maria")
    /\ last.student.high_intent = Value(FALSE)

\* C5 as stated: a successful update_student leaves last_active at the
\* instant of the call
C5_UpdateStampsLastActive ==
    (last.op = "update_student" /\ last.outcome = "ok") =>
        last.student.last_active = Value(last.at)

\* the part of C5 the code keeps: the first generation stamps lastActive
C5_V1UpdateStampsLastActive ==
    (last.op = "update_student" /\ last.svc = "v1" /\ students[last.sid].exists) =>
        students[last.sid].data["lastActive"] = Value(last.at)

\* the same status-only update of the same student, a second time
SecondStatusUpdate ==
    /\ last.op = "update_student" /\ last.outcome = "ok"
    /\ StepOf("update_student") /\ last'.outcome = "ok"
    /\ last'.svc = last.svc /\ last'.sid = last.sid /\ last'.dict = last.dict
    /\ Keys(last.dict) = {"status"}

\* the document but for its last-active stamp
SansLastActive(data) ==
    [data EXCEPT !["last_active"] = Absent("last_active"),
                 !["lastActive"] = Absent("lastActive")]

\* C6 as stated: the second of two status-only updates leaves the stored
\* state of the first, but for last_active, which it advances to its own
\* instant
C6_StatusUpdateIdempotent ==
    [][SecondStatusUpdate =>
        /\ SansLastActive(students'[last.sid].data) = SansLastActive(students[last.sid].data)
        /\ students'[last.sid].data["status"] = last.dict["status"]
        /\ last'.student.last_active = Value(last'.at)]_vars

\* the part of C6 the code keeps: nothing but the last-active stamp differs
\* after the second call
C6_SecondUpdateChangesNothingElse ==
    [][SecondStatusUpdate =>
        /\ SansLastActive(students'[last.sid].data) = SansLastActive(students[last.sid].data)
        /\ students'[last.sid].data["status"] = last.dict["status"]]_vars

\* C8 as stated: get_student never raises, returns the normalized record of
\* a stored document, and returns None only when no document is stored
C8_GetNeverRaises ==
    last.op = "get_student" =>
        /\ last.outcome # "Exception"
        /\ last.outcome = "None" <=> ~students[last.sid].exists

\* the part of C8 the code keeps: a missing id yields None, never an error
C8_GetMissingReturnsNone ==
    (last.op = "get_student" /\ ~students[last.sid].exists) => last.outcome = "None"

\* the stored keys of the three instants, by generation
CreatedKey(svc) == IF svc = "v1" THEN "createdAt" ELSE "created_at"
ContactedKey(svc) == IF svc = "v1" THEN "lastContactedAt" ELSE "last_contacted_at"

\* C9: a successful create stores created_at = last_active = the instant of
\* the call and last_contacted_at = None, returns the body's fields under
\* the id the store assigned, and a get_student of the same generation that
\* follows (at any later instant) returns the record create returned
C9_CreateStampsAndReturns ==
    (last.op = "create_student" /\ last.outcome = "ok") =>
        LET id == last.sid
            data == students[id].data
            st == last.student
        IN /\ students[id].exists
           /\ data[CreatedKey(last.svc)] = Value(last.at)
           /\ data[LastActiveKey(last.svc)] = Value(last.at)
           /\ data[ContactedKey(last.svc)] = Null(ContactedKey(last.svc))
           /\ st.id = id
           /\ st.created_at = Value(last.at) /\ st.last_active = Value(last.at)
           /\ st.last_contacted_at.p = "null"
           /\ st.name = Value(last.create.name) /\ st.email = Value(last.create.email)
           /\ st.country = Value(last.create.country) /\ st.phone = last.create.phone
           /\ st.status = Value(last.create.status)
           /\ st.high_intent = Value(last.create.high_intent)
           /\ st.needs_essay_help = Value(last.create.needs_essay_help)
           /\ \A t \in last.at..MaxClock :
                GetStudentResult(last.svc, students, id, t) =
                    [outcome |-> "ok", student |-> st]

\* a second-generation create succeeded after the clock had advanced
C9_Witness ==
    /\ last.op = "create_student" /\ last.outcome = "ok" /\ last.svc = "v2"
    /\ last.at > 0
    /\ last.student.created_at = Value(last.at)

\* the stored string under key k, lower-cased
LowerOf(data, k) == Lower(Chars(data[k].v))

\* the students a search must match, read off the stored documents
ExpectedMatches(store, req, t) ==
    {i \in DocIds(store) :
        LET data == store[i].data
            q == Lower(Chars(req.query))
        IN /\ \/ IsSubstring(q, LowerOf(data, "name"))
              \/ IsSubstring(q, LowerOf(data, "email"))
              \/ IsSubstring(q, LowerOf(data, "country"))
           /\ req.status_filter.p = "val" => data["status"] = req.status_filter
           /\ req.country_filter.p = "val" =>
                 IsSubstring(Lower(Chars(req.country_filter.v)), LowerOf(data, "country"))
           /\ req.high_intent_only => data["highIntent"] = Value(TRUE)
           /\ req.needs_essay_help_only => data["needsEssayHelp"] = Value(TRUE)
           /\ req.not_contacted_7_days =>
                 \/ data["lastContactedAt"].p # "val"
                 \/ (t - data["lastContactedAt"].v) \div HoursPerDay > NotContactedDays}

MatchesBesidesContact(store, req, t) ==
    ExpectedMatches(store, [req EXCEPT !.not_contacted_7_days = FALSE], t)

\* hours since the stored contact of student i
HoursSinceContact(store, i, t) == t - store[i].data["lastContactedAt"].v

\* C11 as stated: with not_contacted_7_days set, a student the rest of the
\* request matches is included exactly when last_contacted_at is null or the
\* time since it exceeds 7 days
C11_NotContactedIffExceeds7Days ==
    (last.op = "search_students" /\ last.outcome = "ok"
        /\ last.request.not_contacted_7_days) =>
        \A i \in MatchesBesidesContact(students, last.request, last.at) :
            i \in Range(last.response.filtered) <=>
                \/ students[i].data["lastContactedAt"].p # "val"
                \/ HoursSinceContact(students, i, last.at) > NotContactedDays * HoursPerDay

\* the part of C11 the code keeps: null and a contact 8 days old or older
\* are included, a contact 7 days old or younger is excluded
C11_NotContactedExamples ==
    (last.op = "search_students" /\ last.outcome = "ok"
        /\ last.request.not_contacted_7_days) =>
        \A i \in MatchesBesidesContact(students, last.request, last.at) :
            LET in == i \in Range(last.response.filtered)
                h == HoursSinceContact(students, i, last.at)
            IN /\ students[i].data["lastContactedAt"].p # "val" => in
               /\ (students[i].data["lastContactedAt"].p = "val"
                     /\ h >= (NotContactedDays + 1) * HoursPerDay) => in
               /\ (students[i].data["lastContactedAt"].p = "val"
                     /\ h <= NotContactedDays * HoursPerDay) => ~in

\* the smaller and the larger of two numbers
Min(a, b) == IF a < b THEN a ELSE b
Max(a, b) == IF a > b THEN a ELSE b

\* C12: a search that returns reports total = n, the number of filtered
\* students; its page is the filtered list's positions offset .. offset +
\* limit - 1 (counted from 0), of length min(limit, max(0, n - offset)); and
\* has_more is true exactly when offset + limit < n
C12_PaginationAfterFiltering ==
    (last.op = "search_students" /\ last.outcome = "ok") =>
        LET o == last.request.offset
            l == last.request.limit
            n == Len(last.response.filtered)
            page == last.response.students
        IN /\ last.response.total = n
           /\ Len(page) = Min(l, Max(0, n - o))
           /\ \A k \in 1..Len(page) : page[k] = last.response.filtered[o + k]
           /\ last.response.has_more <=> (o + l < n)

\* a search for the second page of one, over two matching students
C12_Witness ==
    /\ last.op = "search_students" /\ last.outcome = "ok"
    /\ last.request.offset = 1 /\ last.request.limit = 1
    /\ last.response.total = 2
    /\ last.response.students = <<last.response.filtered[2]>>
    /\ ~last.response.has_more

\* the rows of a batch that must fail when it is imported into store: those
\* whose email is stored already or was carried by an earlier row
FailingRows(store, items) ==
    {k \in 1..Len(items) :
        \/ \E i \in DocIds(store) : store[i].data["email"] = Value(items[k].email)
        \/ \E j \in 1..(k - 1) : items[j].email = items[k].email}

\* the numbers of a set, in increasing order
RECURSIVE Ascending(_)
Ascending(S) ==
    IF S = {} THEN <<>>
    ELSE LET m == CHOOSE m \in S : \A x \in S : m <= x
         IN <<m>> \o Ascending(S \ {m})

\* C13: an import (not validate_only) fails exactly the rows whose email is
\* taken and goes on after each: imported + failed is the number of items,
\* errors holds one entry per failed row, in input order, with the row's
\* 1-based position and email, and every other row's student is stored
C13_BulkImportNeverAborts ==
    [][(StepOf("bulk_import_students") /\ ~last'.bulk.validate_only) =>
        LET items == last'.bulk.students
            res == last'.bulk
            rows == Ascending(FailingRows(students, items))
        IN /\ res.imported + res.failed = Len(items)
           /\ res.failed = Len(rows)
           /\ res.errors = [k \in 1..Len(rows) |->
                               [row |-> rows[k], email |-> items[rows[k]].email]]
           /\ \A k \in 1..Len(items) : WhereEmail(students', items[k].email) # {}
           /\ Cardinality(DocIds(students')) = Cardinality(DocIds(students)) + res.imported
           /\ res.success <=> res.failed = 0]_vars

\* an import of three rows whose second row failed and whose third row was
\* imported
C13_Witness ==
    /\ last.op = "bulk_import_students" /\ ~last.bulk.validate_only
    /\ Len(last.bulk.students) = 3
    /\ last.bulk.imported = 2 /\ last.bulk.failed = 1
    /\ last.bulk.errors = <<[row |-> 2, email |-> last.bulk.students[2].email]>>
    /\ WhereEmail(students, last.bulk.students[3].email) # {}

\* the stored events of a student a list with this filter is about
StoredEvents(tl, sid, filter) ==
    {e \in TimelineOf(tl, sid) : filter = "" \/ e.type = filter}

\* the list holds exactly the events of S, once each
ListsExactly(events, S) ==
    /\ Range(events) = S
    /\ Len(events) = Cardinality(S)

\* adjacent results never ascend in created_at
CreatedDescending(events) ==
    \A k \in 1..(Len(events) - 1) : events[k].created_at >= events[k + 1].created_at

\* the filter a list read applies, by operation
ListFilterOf(r) ==
    CASE r.op = "get_timeline_events" -> r.filter
      [] r.op = "get_student_interactions" -> "interaction"
      [] r.op = "get_student_communications" -> "communication"
      [] r.op = "get_student_notes" -> "note"
      [] OTHER -> ""

IsListRead(r) ==
    r.op \in {"get_timeline_events", "get_student_interactions",
              "get_student_communications", "get_student_notes"}

\* C14 as stated: every list returns exactly the stored events of the
\* student whose type equals the filter, newest first
C14_ListReturnsStoredEvents ==
    IsListRead(last) =>
        /\ ListsExactly(last.events, StoredEvents(timeline, last.sid, ListFilterOf(last)))
        /\ CreatedDescending(last.events)

\* C14 amended: the list is exact and newest first when every stored event
\* the filter selects can be normalized, and empty when one of them cannot
C14_ListExactWhenNormalizable ==
    IsListRead(last) =>
        LET S == StoredEvents(timeline, last.sid, ListFilterOf(last))
        IN IF \A e \in S : Normalizes(e)
           THEN ListsExactly(last.events, S) /\ CreatedDescending(last.events)
           ELSE last.events = <<>>

\* an unfiltered list of two events created at different instants, newest
\* first
C14_Witness ==
    /\ last.op = "get_timeline_events" /\ last.filter = ""
    /\ Len(last.events) = 2
    /\ last.events[1].created_at > last.events[2].created_at
    /\ last.events[1].type # last.events[2].type

\* the list holds a record of the stored interaction e, with its follow-up
RecordOf(events, e) ==
    \E k \in 1..Len(events) :
        /\ events[k].id = e.id /\ events[k].type = "interaction"
        /\ events[k].follow_up_required = e.follow_up_required
        /\ events[k].follow_up_date = e.follow_up_date

\* C15: create_interaction stores the body's follow_up_required and
\* follow_up_date under the id it returns; no operation changes them while
\* the event is stored; and every list of the student's interactions holds
\* a record of each stored interaction with that id, type and follow-up
C15_InteractionRoundTrip ==
    /\ [][\A body \in InteractionBodies :
            CreateInteraction(GhostId, body) =>
                \E e \in timeline'[GhostId] \ timeline[GhostId] :
                    /\ e.id = last'.event.id /\ e.type = "interaction"
                    /\ e.follow_up_required = body.follow_up_required
                    /\ e.follow_up_date = body.follow_up_date
                    /\ last'.event.follow_up_required = body.follow_up_required
                    /\ last'.event.follow_up_date = body.follow_up_date]_vars
    /\ [][\A sid \in StudentIds : \A e \in timeline[sid] : \A f \in timeline'[sid] :
            f.id = e.id =>
                /\ f.type = e.type
                /\ f.follow_up_required = e.follow_up_required
                /\ f.follow_up_date = e.follow_up_date]_vars
    /\ []((last.op \in {"get_timeline_events", "get_student_interactions"}
            /\ ListFilterOf(last) = "interaction") =>
                \A e \in timeline[last.sid] :
                    e.type = "interaction" => RecordOf(last.events, e))

\* a list of interactions read back a follow-up date from an interaction
\* that a note update had touched in between
C15_Witness ==
    /\ last.op = "get_timeline_events" /\ last.filter = "interaction"
    /\ \E k \in 1..Len(last.events) :
          /\ last.events[k].follow_up_required
          /\ last.events[k].follow_up_date = Value(48)
          /\ last.events[k].title.p = "val"

\* the stored students whose stored status is x
WithStatus(store, x) == {i \in DocIds(store) : store[i].data["status"] = Value(x)}

\* the sum of a tally over the statuses
RECURSIVE TallySum(_, _)
TallySum(f, S) ==
    IF S = {} THEN 0
    ELSE LET x == CHOOSE x \in S : TRUE IN f[x] + TallySum(f, S \ {x})

\* C16 as stated: total_students is the number of stored students,
\* status_breakdown[x] the number with status x (summing to the total) and
\* applications_in_progress the number with status Applying or Submitted
C16_StatsCountStoredStudents ==
    last.op = "get_dashboard_stats" =>
        /\ last.stats.total_students = Cardinality(DocIds(students))
        /\ \A x \in StudentStatus :
              last.stats.status_breakdown[x] = Cardinality(WithStatus(students, x))
        /\ TallySum(last.stats.status_breakdown, StudentStatus) = last.stats.total_students
        /\ last.stats.applications_in_progress =
              Cardinality(WithStatus(students, "Applying") \cup WithStatus(students, "Submitted"))

\* the part of C16 the code keeps: the counts are right whenever every
\* stored status is one of the enumeration
C16_StatsCountWhenStatusesValid ==
    (last.op = "get_dashboard_stats"
        /\ \A i \in DocIds(students) : students[i].data["status"].v \in StudentStatus) =>
        /\ last.stats.total_students = Cardinality(DocIds(students))
        /\ \A x \in StudentStatus :
              last.stats.status_breakdown[x] = Cardinality(WithStatus(students, x))
        /\ TallySum(last.stats.status_breakdown, StudentStatus) = last.stats.total_students
        /\ last.stats.applications_in_progress =
              Cardinality(WithStatus(students, "Applying") \cup WithStatus(students, "Submitted"))

\* the day an instant falls on
Today(t) == t \div HoursPerDay

\* C17 as stated: upcoming_reminders counts the reminders dated today or
\* later, overdue_reminders those dated before today, and the two sum to
\* total_reminders
C17_ReminderCountsSplitAtToday ==
    last.op = "get_dashboard_stats" =>
        /\ last.stats.upcoming_reminders =
              Cardinality({r \in reminders : r.reminder_date >= Today(last.at)})
        /\ last.stats.overdue_reminders =
              Cardinality({r \in reminders : r.reminder_date < Today(last.at)})
        /\ last.stats.upcoming_reminders + last.stats.overdue_reminders =
              last.stats.total_reminders

\* the part of C17 the code keeps: total_reminders is the number of stored
\* reminders
C17_TotalRemindersCounted ==
    last.op = "get_dashboard_stats" =>
        last.stats.total_reminders = Cardinality(reminders)

\* the document with its status replaced by a valid one
WithValidStatus(data) == [data EXCEPT !["status"] = Value("Exploring")]

\* the status the normalized record is to carry
ExpectedStatus(entry) ==
    IF entry.p = "val" /\ entry.v \in StudentStatus THEN entry ELSE Value("Exploring")

\* C18 as stated: normalizing a stored student document never fails because
\* of its status (a document that normalizes with a valid status normalizes
\* with any status), and a missing, null or unknown status yields Exploring
C18_StatusNeverFailsNormalizing ==
    (last.op = "_doc_to_student"
        /\ V2DocToStudent(last.sid, WithValidStatus(students[last.sid].data), last.at).ok) =>
        /\ last.outcome = "ok"
        /\ last.student.status = ExpectedStatus(students[last.sid].data["status"])

\* the part of C18 the code keeps: a missing, null or empty status yields
\* Exploring and a status of the enumeration is kept
C18_MissingStatusIsExploring ==
    (last.op = "_doc_to_student"
        /\ V2DocToStudent(last.sid, WithValidStatus(students[last.sid].data), last.at).ok
        /\ students[last.sid].data["status"] \in
              {Absent("status"), Null("status"), Value("")} \cup
              {Value(x) : x \in StudentStatus}) =>
        /\ last.outcome = "ok"
        /\ last.student.status = ExpectedStatus(students[last.sid].data["status"])

\* the default of a field when neither key holds a value
DefaultOf(f, t) ==
    IF f.cur \in BoolKeys THEN Value(FALSE)
    ELSE IF f.cur \in {"created_at", "last_active"} THEN Value(t)
    ELSE Null(f.cur)

\* the value key precedence gives a field: the current key's, else the
\* legacy key's, else the default (a key holding null holds no value)
ByPrecedence(data, f, t) ==
    IF data[f.cur].p = "val" THEN data[f.cur]
    ELSE IF data[f.leg].p = "val" THEN data[f.leg]
    ELSE DefaultOf(f, t)

\* C19 as stated: each of created_at, last_active, last_contacted_at,
\* high_intent, needs_essay_help and additional_data of a normalized record
\* is the value under the current key, else the value under the legacy key,
\* else the default; a value under the current key is never overridden
C19_CurrentKeyThenLegacyThenDefault ==
    (last.op = "_doc_to_student" /\ last.outcome = "ok") =>
        \A f \in NormalizedFields :
            last.student[f.cur] = ByPrecedence(students[last.sid].data, f, last.at)

\* the part of C19 the code keeps: the precedence holds for every field
\* whose current key does not hold an empty mapping
C19_PrecedenceUnlessCurrentIsEmptyMap ==
    (last.op = "_doc_to_student" /\ last.outcome = "ok") =>
        \A f \in NormalizedFields :
            students[last.sid].data[f.cur] # Value("{}") =>
                last.student[f.cur] = ByPrecedence(students[last.sid].data, f, last.at)

\* every task that is still stored keeps its stored student_id
TaskOwnersKept ==
    \A t \in tasks : \A u \in tasks' :
        u.id = t.id => u.data["student_id"] = t.data["student_id"]

\* every timeline event that is still stored is in the timeline of the
\* student it was in
EventOwnersKept ==
    \A sid \in StudentIds : \A e \in timeline[sid] :
        \A other \in StudentIds : \A f \in timeline'[other] :
            f.id = e.id => other = sid

\* C20 as stated: through every operation, update_task and
\* update_student_note included, the stored owning student_id of a timeline
\* event, task or reminder is the one it was created with
C20_OwnerNeverChanges == [][TaskOwnersKept /\ EventOwnersKept]_vars

\* the part of C20 the code keeps: a timeline event never changes its owner,
\* and a task changes its owner only in update_task
C20_OwnerChangesOnlyInUpdateTask ==
    [][EventOwnersKept /\ (last'.op # "update_task" => TaskOwnersKept)]_vars

\* the step is a call of send_email
SendEmailStep == last'.op = "send_email"

C22_DocumentRemovedAfterTimeline ==
    /\ [][\A id \in AssignedIds :
            (students[id].exists /\ ~students'[id].exists) => timeline[id] = {}]_vars
    /\ [](\A id \in AssignedIds :
            (id < nextId /\ ~students[id].exists) => timeline[id] = {})

\* a delete that deleted two events of its student has returned true, after
\* which the student has neither a document nor an event
C22_Witness ==
    /\ last.op = "delete_student" /\ last.outcome = "True"
    /\ last.count = 2
    /\ ~students[last.sid].exists
    /\ timeline[last.sid] = {}

\* C23 as stated: under interleaved create requests no two student
\* documents ever share an email
C23_EmailUniqueUnderInterleaving ==
    \A i \in DocIds(students) : \A j \in DocIds(students) :
        students[i].data["email"] = students[j].data["email"] => i = j

\* the part of C23 the code keeps: a create whose existence query runs when
\* a student with its email is stored raises ValueError and persists nothing
C23_CreateAfterStoredIsRejected ==
    [][/\ \A p \in Procs :
            (calls[p] = Idle /\ calls'[p].op = "create_student") =>
                WhereEmail(students, calls'[p].create.email) = {}
       /\ (last' # last /\ calls' = calls /\ last'.op = "create_student") =>
            /\ last'.outcome = "ValueError"
            /\ students' = students
            /\ WhereEmail(students, last'.create.email) # {}]_vars

\* the ids of the events of a list
IdsOf(events) == {events[i].id : i \in 1..Len(events)}

\* C24: an aggregate read that runs while a student is being deleted
\* returns a list (it does not fail and is not emptied): the list holds
\* every event of its type of every student that was streamed and still has
\* a document, and every event in it carries the name and email of a
\* streamed student
C24_AggregateToleratesDelete ==
    [][\A p \in Procs :
          (calls[p].op \in Aggregates /\ calls'[p] = Idle) =>
            /\ last'.op = calls[p].op /\ last'.outcome = "ok"
            /\ \A sid \in DocIds(students) : calls[p].seen[sid].exists =>
                  \A e \in timeline[sid] :
                      e.type = AggregateType(calls[p].op) => e.id \in IdsOf(last'.events)
            /\ \A i \in 1..Len(last'.events) :
                  /\ calls[p].seen[last'.events[i].student_id].exists
                  /\ last'.events[i].student_name.p = "val"]_vars

\* an aggregate read is about to return an event of one student while
\* another student, whom it streamed, has been deleted since
C24_Witness ==
    \E p \in Procs :
        /\ calls[p].op \in Aggregates /\ calls[p].ids = <<>>
        /\ calls[p].found # {}
        /\ \E sid \in AssignedIds : calls[p].seen[sid].exists /\ ~students[sid].exists
        /\ \E e \in calls[p].found : students[e.student_id].exists

\* the step is the return of a list read
ListReadStep == last' # last /\ last'.op \in ListReads

\* the read fetches a document that its normalizer raises on
FetchesBroken(op, sid) ==
    CASE op = "get_students" ->
            \E i \in DocIds(students) : ~V2DocToStudent(i, students[i].data, now).ok
      [] op = "get_all_tasks" -> \E t \in tasks : ~DocToTask(t.data)
      [] op = "get_all_reminders" -> \E r \in reminders : r.title.p # "val"
      [] op = "get_timeline_events" ->
            \E e \in TimelineOf(timeline, sid) :
                e.type \in TimelineEventType /\ ~Normalizes(e)
      [] op = "get_student_interactions" ->
            \E e \in TimelineOf(timeline, sid) : e.type = "interaction" /\ ~Normalizes(e)
      [] op = "get_student_communications" ->
            \E e \in TimelineOf(timeline, sid) : e.type = "communication" /\ ~Normalizes(e)
      [] op = "get_student_notes" ->
            \E e \in TimelineOf(timeline, sid) : e.type = "note" /\ ~Normalizes(e)
      [] OTHER -> FALSE

\* a list read neither raises nor writes
ReadsQuietly ==
    /\ last'.outcome = "ok"
    /\ students' = students /\ timeline' = timeline
    /\ tasks' = tasks /\ reminders' = reminders

\* the events stored in any timeline
AllEventIds == UNION {{e.id : e \in timeline[sid]} : sid \in StudentIds}

CreatedWithin(n, t) ==
    {i \in DocIds(students) : students[i].data["createdAt"].v >= t - n * HoursPerDay}

\* the stored students never contacted or last contacted n days or more
\* before instant t
NotContactedFor(n, t) ==
    {i \in DocIds(students) :
        \/ students[i].data["lastContactedAt"].p # "val"
        \/ t - students[i].data["lastContactedAt"].v >= n * HoursPerDay}

\* C26 as stated: for every date_range_days, newStudentsThisWeek counts the
\* students created within the last 7 days, newStudentsThisMonth those
\* within the last 30 days, newStudents those within the last
\* date_range_days days, and studentsNotContacted7Days those never
\* contacted or last contacted at least 7 days ago
C26_AnalyticsCounts ==
    (last.op = "get_analytics" /\ last.outcome = "ok") =>
        /\ last.analytics.newStudentsThisWeek = Cardinality(CreatedWithin(WeekDays, last.at))
        /\ last.analytics.newStudentsThisMonth = Cardinality(CreatedWithin(MonthDays, last.at))
        /\ last.analytics.newStudents =
              Cardinality(CreatedWithin(last.analytics.date_range_days, last.at))
        /\ last.analytics.studentsNotContacted7Days =
              Cardinality(NotContactedFor(NotContactedDays, last.at))

\* the part of C26 the code keeps: newStudents is as stated; the week and
\* month counts are as stated when date_range_days is at least 7 and 30,
\* and otherwise count the students created within date_range_days; the
\* engagement count takes the students never contacted or last contacted 8
\* days or more ago
C26_AnalyticsCountsWithinRange ==
    (last.op = "get_analytics" /\ last.outcome = "ok") =>
        LET days == last.analytics.date_range_days
        IN /\ last.analytics.newStudents = Cardinality(CreatedWithin(days, last.at))
           /\ last.analytics.newStudentsThisWeek =
                 Cardinality(CreatedWithin(Min(days, WeekDays), last.at))
           /\ last.analytics.newStudentsThisMonth =
                 Cardinality(CreatedWithin(Min(days, MonthDays), last.at))
           /\ last.analytics.studentsNotContacted7Days =
                 Cardinality(NotContactedFor(NotContactedDays + 1, last.at))

\* C27 as stated: when delete_student(S) runs concurrently with an append to
\* the timeline of S, then once both have finished and the delete returned
\* true the timeline of S is empty
C27_TimelineEmptyAfterConcurrentDelete ==
    (last.op = "delete_student" /\ last.outcome = "True") => timeline[last.sid] = {}

\* the part of C27 the code keeps: a delete that returned true deleted as
\* many events as it reports, and the student document is gone
C27_DeleteRemovesStreamedEvents ==
    [][(last' # last /\ last'.op = "delete_student" /\ last'.outcome = "True")
         => /\ ~students'[last'.sid].exists
            /\ \E p \in Procs :
                  /\ calls[p].op = "delete_student" /\ calls'[p] = Idle
                  /\ calls[p].pending = {}
                  /\ timeline' = timeline]_vars

\* C28: a student whose document was deleted is never brought back by
\* update_student, update_student_last_active or update_student_checkboxes,
\* whether the update began before or after the delete: no step of an update
\* turns a missing document into a stored one
C28_UpdateNeverRevives ==
    [][\A i \in AssignedIds :
          (~students[i].exists /\ \E p \in Procs : calls[p].op \in Updates)
              => ~students'[i].exists]_vars

\* an update that read the document, lost it to a delete and then failed at
\* its write, leaving no document
C28_Witness ==
    /\ last.op = "update_student" /\ last.outcome = "Exception"
    /\ last.sid < nextId /\ ~students[last.sid].exists

\* C29: update_student_note writes exactly the title and the content of the
\* one event it names: content is the body's content and null when the body
\* has none, title is the body's title and "Internal Note" when the body has
\* none; the event's other fields, every other event and every student
\* document stay as they were, and nothing is written when the event is
\* missing
C29_NoteUpdateWritesTitleAndContent ==
    [][(last'.op = "update_student_note" /\ (last' # last \/ timeline' # timeline))
         => LET sid == last'.sid
                patch == last'.patch
                content == IF patch.content.p = "val" THEN patch.content ELSE Null("name")
                title == IF patch.title.p = "absent" THEN Value("Internal Note")
                         ELSE patch.title
            IN /\ students' = students
               /\ \A i \in StudentIds \ {sid} : timeline'[i] = timeline[i]
               /\ IF \E e \in timeline[sid] : e.id = last'.event.id
                  THEN \E e \in timeline[sid] :
                          /\ e.id = last'.event.id
                          /\ timeline'[sid] = (timeline[sid] \ {e}) \cup
                                {[e EXCEPT !.title = title, !.content = content]}
                  ELSE timeline' = timeline]_vars

\* a note updated by a body without content, next to another event of the
\* same student, under a stored student
C29_Witness ==
    /\ last.op = "update_student_note" /\ last.outcome = "Exception"
    /\ last.patch.content.p = "absent"
    /\ students[last.sid].exists
    /\ \E e \in timeline[last.sid] :
          /\ e.id = last.event.id /\ e.type = "note"
          /\ e.content = Null("name") /\ e.title = Value("New title")
    /\ \E e \in timeline[last.sid] : e.id # last.event.id

\* C30: bulk_import with validate_only = true persists nothing; with
\* validate_only = false the students collection grows by exactly the
\* imported count the result reports, and no stored student is changed or
\* removed
C30_ValidateOnlyPersistsNothing ==
    [][StepOf("bulk_import_students") =>
        /\ <<timeline, tasks, reminders>>' = <<timeline, tasks, reminders>>
        /\ IF last'.bulk.validate_only
           THEN students' = students
           ELSE /\ Cardinality(DocIds(students')) =
                      Cardinality(DocIds(students)) + last'.bulk.imported
                /\ \A i \in DocIds(students) : students'[i] = students[i]]_vars

\* a validate_only import of three rows, one of them with a stored email,
\* that reports three imported rows over a store of one student
C30_Witness ==
    /\ last.op = "bulk_import_students" /\ last.bulk.validate_only
    /\ Len(last.bulk.students) = 3 /\ last.bulk.imported = 3
    /\ Cardinality(DocIds(students)) = 1
    /\ WhereEmail(students, last.bulk.students[1].email) # {}

====
